---- MODULE Spec2Model ----
(***************************************************************************)
(* A model of the deterministic row generator of search-under-constraints  *)
(* (bench/generator.py): the weighted picker, the per-row randomness       *)
(* stream, the name and description builders, token injection and the      *)
(* generate_products generator, as state machines TLC can explore.         *)
(*                                                                         *)
(* Conventions.                                                            *)
(*  - A text (name, brand, category, description) is the sequence of its   *)
(*    whitespace-separated words; str.split() and " ".join() move between  *)
(*    the two, so a qualifier phrase such as "family size" is two words.   *)
(*  - A float in [0,1) drawn by rng.random() is the fraction out/RngMod;   *)
(*    a rate is the fraction rate/RateDen; a weight is an integer number   *)
(*    of weight units.  Comparisons are done exactly, cross-multiplied.    *)
(*  - The two digests (blake2b for the stream, md5 for the identifier) are *)
(*    deterministic mixings of the bytes of "<seed>:<row_index>"; md5 is   *)
(*    a mixing without collisions on the bounded message space.            *)
(***************************************************************************)
EXTENDS Integers, Sequences, FiniteSets, TLC

VARIABLES
    cfg,      \* the SeedConfig handed to invocation 1 and to the lone worker
    cfg2,     \* the SeedConfig handed to invocation 2
    gen,      \* gen[g]: the generator object of invocation g of generate_products
    alone,    \* the last row assembled in isolation by an independent worker
    picker,   \* a WeightedPicker object built directly (or NoPicker)
    call,     \* the last direct call of a function of the module, with its result
    load,     \* copy_products: where it stands, and the products table
    _ENCODER, \* the process-wide _CsvEncoder of the loader (or NoEncoder)
    run       \* cmd_run: where it stands, the schema state and what it did

vars == <<cfg, cfg2, gen, alone, picker, call, load, _ENCODER, run>>

----------------------------------------------------------------------------
(* Bounds of the model *)

MaxRows == 3      \* cfg.rows ranges over 1..MaxRows
RngMod == 16      \* resolution of a draw: rng.random() is out/RngMod
RateDen == 4      \* a rate is k/RateDen, k in 0..RateDen
MaxWeight == 2    \* a directly built picker has weights in 0..MaxWeight
MaxLabels == 3    \* a directly built picker has at most MaxLabels labels
MaxStale == 1     \* the products table holds 0..MaxStale rows before a load
MaxVariants == 2  \* bench_cfg.variants holds 1..MaxVariants names
MaxQueries == 2   \* bench_cfg.queries holds 1..MaxQueries names
MaxRuns == 2      \* bench_cfg.runs ranges over 1..MaxRuns

----------------------------------------------------------------------------
(* Hardcoded vocabulary *)

COMMON_TOKENS ==
    <<"organic", "chicken", "gluten", "natural", "spicy", "classic",
      "premium", "fresh", "healthy", "seasoned">>

ADJECTIVES ==
    <<"smoky", "crispy", "zesty", "hearty", "sweet", "savory", "tangy",
      "bright", "roasted", "toasted", "herbed", "sliced", "chunky",
      "creamy", "bold">>

NOUNS ==
    <<"chips", "soup", "sauce", "tea", "coffee", "broth", "granola", "mix",
      "bites", "snacks", "spread", "berries", "greens", "protein",
      "vitamins">>

\* Each qualifier is a phrase of two words.
QUALIFIERS ==
    << <<"family", "size">>, <<"single", "serve">>, <<"value", "pack">>,
       <<"low", "sodium">>, <<"no", "sugar">>, <<"extra", "hot">>,
       <<"limited", "batch">>, <<"stone", "ground">>, <<"farm", "style">> >>

FILLER_TOKENS ==
    <<"crafted", "selected", "quality", "ingredients", "from", "trusted",
      "sources", "packed", "for", "everyday", "meals", "quick", "snacking",
      "great", "taste", "balanced", "flavor", "kitchen", "pantry", "ready",
      "to", "enjoy">>

----------------------------------------------------------------------------
(* Sequence helpers *)

Range(s) == {s[k] : k \in 1..Len(s)}

Min2(a, b) == IF a <= b THEN a ELSE b

\* s[lo:hi] of Python: 0-based, hi exclusive.
Slice(s, lo, hi) == SubSeq(s, lo + 1, hi)

\* list.insert(pos, x), 0-based pos in 0..len.
InsertAt(s, pos, x) == SubSeq(s, 1, pos) \o <<x>> \o SubSeq(s, pos + 1, Len(s))

RECURSIVE SeqSum(_)
SeqSum(s) == IF s = <<>> THEN 0 ELSE s[1] + SeqSum(Tail(s))

\* All sequences over S of length 0..n.
SeqsUpTo(S, n) == UNION {[1..k -> S] : k \in 0..n}

----------------------------------------------------------------------------
(* The random.Random object: a stream of draws.  The state is a number in   *)
(* 0..RngMod-1; each draw advances it and returns the new state as `out`.   *)

\* The byte codes of a message: the decimal digits 0..9 and ":" (10).
Colon == <<10>>

\* str(n).encode("utf-8") for n >= 0: the decimal digits, most significant first.
RECURSIVE StrOf(_)
StrOf(n) == IF n < 10 THEN <<n>> ELSE StrOf(n \div 10) \o <<n % 10>>

\* The bytes fed to either digest: str(seed), b":", str(row_index).
Message(seed, row_index) == StrOf(seed) \o Colon \o StrOf(row_index)

\* blake2b(digest_size=8) read as a big-endian unsigned integer: a mixing of
\* the message bytes.
RECURSIVE Blake2b(_, _)
Blake2b(msg, h) ==
    IF msg = <<>> THEN ((h % 256) * (h \div 256 + 3) + h \div 7) % 65536
    ELSE Blake2b(Tail(msg), (h * 31 + msg[1] + 7) % 65536)

\* random.Random(derived): the initial state of the stream.
Seeded(derived) == derived % RngMod

\* One step of the underlying generator.
Advance(rng) == (5 * rng + 3) % RngMod

\* The stream after n draws.
RECURSIVE Advanced(_, _)
Advanced(rng, n) == IF n = 0 THEN rng ELSE Advanced(Advance(rng), n - 1)

\* rng.random(): [out, rng'] with the float out/RngMod in [0,1).
Random(rng) == [out |-> Advance(rng), rng |-> Advance(rng)]

\* rng.randrange(lo, hi): uniform in lo..hi-1 (ValueError on an empty range,
\* out = -1 here), one draw.
Randrange(rng, lo, hi) ==
    IF hi <= lo THEN [out |-> -1, rng |-> rng]
    ELSE [out |-> lo + (Advance(rng) * (hi - lo)) \div RngMod, rng |-> Advance(rng)]

\* rng.randint(lo, hi): inclusive of hi.
Randint(rng, lo, hi) == Randrange(rng, lo, hi + 1)

_row_rng(seed, row_index) == Seeded(Blake2b(Message(seed, row_index), 0))

----------------------------------------------------------------------------
(* WeightedPicker *)

NoPicker == [ok |-> FALSE, error |-> "none"]

\* The cumulative table [w1, w1+w2, ...].
RECURSIVE Cdf(_, _)
Cdf(weights, total) ==
    IF weights = <<>> THEN <<>>
    ELSE <<total + weights[1]>> \o Cdf(Tail(weights), total + weights[1])

PickerError == [ok |-> FALSE, error |-> "ValueError"]

\* Mutant: the check for an empty list left out.
WeightedPickerUnchecked(items, weights) ==
    IF Len(items) # Len(weights) THEN PickerError
    ELSE [ok |-> TRUE, error |-> "none", _items |-> items,
          _cdf |-> Cdf(weights, 0), _total |-> SeqSum(weights)]

\* WeightedPicker.__init__: the object, or the ValueError it raises.
WeightedPicker(items, weights) ==
    IF Len(items) # Len(weights) THEN PickerError
    ELSE IF items = <<>> THEN PickerError
    ELSE [ok |-> TRUE, error |-> "none", _items |-> items,
          _cdf |-> Cdf(weights, 0), _total |-> SeqSum(weights)]

\* Mutant: the comparison of the search made strict.
DrawLess(out, total, c) == out * total < c * RngMod

\* x <= cdf[k] for x = (out/RngMod) * total, cross-multiplied.
DrawLeq(out, total, c) == out * total <= c * RngMod

\* The binary search of pick over cdf[lo..hi] (0-based).
RECURSIVE Bisect(_, _, _, _, _)
Bisect(cdf, out, total, lo, hi) ==
    IF lo < hi
    THEN LET mid == (lo + hi) \div 2
         IN IF DrawLeq(out, total, cdf[mid + 1])
            THEN Bisect(cdf, out, total, lo, mid)
            ELSE Bisect(cdf, out, total, mid + 1, hi)
    ELSE lo

\* return self._items[lo]
Picked(p, d, lo) ==
    [out |-> p._items[lo + 1], rng |-> d.rng, idx |-> lo, x |-> d.out]

\* x = rng.random() * self._total, then the search.
PickAt(p, d) == Picked(p, d, Bisect(p._cdf, d.out, p._total, 0, Len(p._cdf) - 1))

\* WeightedPicker.pick: [out, rng', idx, x] (idx: the 0-based index
\* returned, x: the draw).
Pick(p, rng) == PickAt(p, Random(rng))

----------------------------------------------------------------------------
(* Deterministic primitives *)

HexChars == <<"0", "1", "2", "3", "4", "5", "6", "7", "8", "9",
              "a", "b", "c", "d", "e", "f">>

\* "".join of a sequence of strings.
RECURSIVE Concat(_)
Concat(ss) == IF ss = <<>> THEN "" ELSE ss[1] \o Concat(Tail(ss))

\* The message bytes read as one number (no two messages share it).
RECURSIVE Positional(_, _)
Positional(msg, h) ==
    IF msg = <<>> THEN h ELSE Positional(Tail(msg), h * 12 + msg[1] + 1)

\* The 32 hex digits (numbers 0..15) of the 16-bit mixing d.
HexDigits(d) ==
    [k \in 1..32 |-> ((d \div (16 ^ ((k - 1) % 4))) + (k - 1) \div 4) % 16]

\* md5(...).hexdigest(): a mixing of the message without collisions on the
\* messages of the model.
Md5Hex(msg) == HexDigits((Positional(msg, 0) * 25173 + 13849) % 65536)

\* The characters of a sequence of digits (decimal or hex).
Chars(ds) == Concat([k \in 1..Len(ds) |-> HexChars[ds[k] + 1]])

\* f"{hex32[0:8]}-{hex32[8:12]}-{hex32[12:16]}-{hex32[16:20]}-{hex32[20:32]}"
UuidLayout(hex32) ==
    Chars(Slice(hex32, 0, 8)) \o "-" \o Chars(Slice(hex32, 8, 12)) \o "-"
    \o Chars(Slice(hex32, 12, 16)) \o "-" \o Chars(Slice(hex32, 16, 20))
    \o "-" \o Chars(Slice(hex32, 20, 32))

\* Mutant: the row index left out of the digest.
deterministic_uuid_seed_only(seed, row_index) ==
    UuidLayout(Md5Hex(StrOf(seed) \o Colon))

deterministic_uuid(seed, row_index) == UuidLayout(Md5Hex(Message(seed, row_index)))

\* Mutant: the first row one step after the base instant.
deterministic_timestamp_from_one(base_utc, step_seconds, row_index) ==
    base_utc + (row_index + 1) * step_seconds

\* deterministic_timestamp: instants are seconds on the UTC time line.
deterministic_timestamp(base_utc, step_seconds, row_index) ==
    base_utc + row_index * step_seconds

\* Mutant: the zeros appended instead of prepended.
PaddedTrailing(ds, width) ==
    IF Len(ds) >= width THEN ds ELSE ds \o [k \in 1..(width - Len(ds)) |-> 0]

\* f"{n:0{width}d}": the decimal digits of n, zero-padded to at least width.
Padded(ds, width) ==
    IF Len(ds) >= width THEN ds ELSE [k \in 1..(width - Len(ds)) |-> 0] \o ds

FormatPadded(n, width) == Padded(StrOf(n), width)

\* f"{cfg.rare_tokens.prefix}{n:0{cfg.rare_tokens.width}d}" for the draw d.
RareFormatted(c, d) ==
    [out |-> c.rare_tokens.prefix
               \o Chars(FormatPadded(d.out, c.rare_tokens.width)),
     rng |-> d.rng, n |-> d.out]

\* rare_token: [out, rng', n].
rare_token(c, rng) ==
    RareFormatted(c, Randint(rng, c.rare_tokens.start, c.rare_tokens.end))

FieldOf(r) == [error |-> "none", out |-> r.out, rng |-> r.rng]

ChosenField(p, rng) ==
    IF ~p.ok THEN [error |-> p.error, out |-> "", rng |-> rng]
    ELSE FieldOf(Pick(p, rng))

\* _choose_injection_field: [error, out, rng'].
_choose_injection_field(c, rng) ==
    ChosenField(WeightedPicker(c.token_injection.fields.items,
                               c.token_injection.fields.weights), rng)

----------------------------------------------------------------------------
(* Name and description builders *)

\* A name pattern is the sequence of its space-separated pieces.  These are
\* the pieces of the model that hold a "{" or a "}".
BraceWords ==
    {"{adj}", "{noun}", "{qualifier}", "{brandish}", "{color}", "{Adj}",
     "{", "}"}

HasBrace(w) == w \in BraceWords

\* out.replace(ph, " ".join(words)) on a sequence of pieces.
RECURSIVE Replace(_, _, _)
Replace(out, ph, words) ==
    IF out = <<>> THEN <<>>
    ELSE (IF out[1] = ph THEN words ELSE <<out[1]>>)
         \o Replace(Tail(out), ph, words)

\* Successive rng.randrange(0, n) for n in sizes: [outs, rng'].
RECURSIVE Draws(_, _)
DrawsFrom(d, rest) ==
    LET r == Draws(d.rng, rest)
    IN [outs |-> <<d.out>> \o r.outs, rng |-> r.rng]

Draws(rng, sizes) ==
    IF sizes = <<>> THEN [outs |-> <<>>, rng |-> rng]
    ELSE DrawsFrom(Randrange(rng, 0, sizes[1]), Tail(sizes))

\* if "{" in out or "}" in out: raise ValueError
Checked(pattern, out, rng) ==
    IF \E k \in 1..Len(out) : HasBrace(out[k])
    THEN [error |-> "ValueError", out |-> <<>>, pattern |-> pattern, rng |-> rng,
          fn |-> "base_name_for_index", calls |-> <<>>]
    ELSE [error |-> "none", out |-> out, pattern |-> pattern, rng |-> rng,
          fn |-> "base_name_for_index", calls |-> <<>>]

\* Mutant: the replace of {brandish} left out.
SubstitutedThree(pattern, outs, rng) ==
    Checked(pattern,
            Replace(Replace(Replace(pattern,
                "{adj}", <<ADJECTIVES[outs[2] + 1]>>),
                "{noun}", <<NOUNS[outs[3] + 1]>>),
                "{qualifier}", QUALIFIERS[outs[4] + 1]),
            rng)

\* Mutant: the adjective takes the noun's draw and the noun the adjective's.
SubstitutedSwapped(pattern, outs, rng) ==
    Checked(pattern,
            Replace(Replace(Replace(Replace(pattern,
                "{adj}", <<ADJECTIVES[outs[3] + 1]>>),
                "{noun}", <<NOUNS[outs[2] + 1]>>),
                "{qualifier}", QUALIFIERS[outs[4] + 1]),
                "{brandish}", <<ADJECTIVES[outs[5] + 1]>>),
            rng)

\* The four replace calls, with the words the draws selected.
Substituted(pattern, outs, rng) ==
    Checked(pattern,
            Replace(Replace(Replace(Replace(pattern,
                "{adj}", <<ADJECTIVES[outs[2] + 1]>>),
                "{noun}", <<NOUNS[outs[3] + 1]>>),
                "{qualifier}", QUALIFIERS[outs[4] + 1]),
                "{brandish}", <<ADJECTIVES[outs[5] + 1]>>),
            rng)

NameFromDraws(c, d) ==
    Substituted(c.templates.name_patterns[d.outs[1] + 1], d.outs, d.rng)

\* The five draws of base_name_for_index, in order: pattern, adj, noun,
\* qualifier, brandish.
NameDrawSizes(c) ==
    <<Len(c.templates.name_patterns), Len(ADJECTIVES), Len(NOUNS),
      Len(QUALIFIERS), Len(ADJECTIVES)>>

\* base_name_for_index: [error, out, pattern, rng'] (rng': the private stream
\* after the five draws).
base_name_for_index(c, row_index) ==
    NameFromDraws(c, Draws(_row_rng(c.seed, row_index), NameDrawSizes(c)))

\* random() < rate, for out/RngMod and rate/RateDen.
Under(out, rate) == out * RateDen < rate * RngMod

\* A result of maybe_make_near_duplicate.  `calls` lists the calls of name
\* functions made while the result was computed, nested ones included, as
\* [fn, row_index]; the one draw sequence builds it in WithCall.
NameResult(e, out, rng, source_idx) ==
    [error |-> e, out |-> out, rng |-> rng, source_idx |-> source_idx,
     fn |-> "maybe_make_near_duplicate", calls |-> <<>>]

\* r was computed with a call that returned `source` for row index idx.
WithCall(r, idx, source) ==
    [r EXCEPT !.calls = <<[fn |-> source.fn, row_index |-> idx]>> \o source.calls]

\* The three transforms, on the recomputed base name of the source row.
NearDupTransform(src, source, transform) ==
    IF source.error # "none"
    THEN NameResult(source.error, <<>>, src.rng, src.out)
    ELSE IF transform.out = 0
    THEN LET q == Randrange(transform.rng, 0, Len(QUALIFIERS))
         IN NameResult("none", source.out \o QUALIFIERS[q.out + 1], q.rng, src.out)
    ELSE IF transform.out = 1
    THEN LET a == Randrange(transform.rng, 0, Len(ADJECTIVES))
         IN NameResult("none", <<ADJECTIVES[a.out + 1]>> \o source.out, a.rng, src.out)
    ELSE NameResult("none", source.out \o <<"-", "limited">>, transform.rng, src.out)

NearDupSourced(src, source, transform) ==
    WithCall(NearDupTransform(src, source, transform), src.out, source)

\* The name generate_products gives row j: the base name of j put through
\* maybe_make_near_duplicate with the stream of j after the two picks.
RECURSIVE FinalName(_, _)

\* Mutant: the source name is the final name of the source row, itself
\* possibly a near duplicate of a row before it.
NearDupFromFinal(c, src) ==
    IF src.out < 0 THEN NameResult("ValueError", <<>>, src.rng, -1)
    ELSE NearDupSourced(src, FinalName(c, src.out), Randrange(src.rng, 0, 3))

\* Mutant: the source index drawn is the index before the row used.
NearDupFromNext(c, src) ==
    IF src.out < 0 THEN NameResult("ValueError", <<>>, src.rng, -1)
    ELSE NearDupSourced(src, base_name_for_index(c, src.out + 1),
                        Randrange(src.rng, 0, 3))

\* source_name = base_name_for_index(cfg, source_idx); transform = ...
NearDupFrom(c, src) ==
    IF src.out < 0 THEN NameResult("ValueError", <<>>, src.rng, -1)
    ELSE NearDupSourced(src, base_name_for_index(c, src.out),
                        Randrange(src.rng, 0, 3))

\* if rng.random() >= rate: return base_name
NearDupRolled(c, row_index, base_name, roll) ==
    IF ~Under(roll.out, c.duplicates.near_duplicate_row_rate)
    THEN NameResult("none", base_name, roll.rng, -1)
    ELSE NearDupFrom(c, Randrange(roll.rng, 0, row_index))

\* Mutant: the early return for row index 0 left out.
maybe_make_near_duplicate_always(c, row_index, base_name, rng) ==
    NearDupRolled(c, row_index, base_name, Random(rng))

\* maybe_make_near_duplicate: [error, out, rng', source_idx] (source_idx = -1
\* when no earlier row was used).
maybe_make_near_duplicate(c, row_index, base_name, rng) ==
    IF row_index = 0 THEN NameResult("none", base_name, rng, -1)
    ELSE NearDupRolled(c, row_index, base_name, Random(rng))

\* Mutant: the positions of the vocabularies shifted by one.
DescriptionVocabularyShifted(p) ==
    IF p % 5 = 1 THEN ADJECTIVES
    ELSE IF p % 5 = 2 THEN NOUNS
    ELSE FILLER_TOKENS

FinalNamed(j, r) ==
    [r EXCEPT !.calls = <<[fn |-> "base_name_for_index", row_index |-> j]>>
                          \o r.calls]

FinalNameOf(c, j, base) ==
    IF base.error # "none" THEN base
    ELSE FinalNamed(j, maybe_make_near_duplicate(c, j, base.out,
                           Advance(Advance(_row_rng(c.seed, j)))))

FinalName(c, j) == FinalNameOf(c, j, base_name_for_index(c, j))

\* The vocabulary of position p of a description.
DescriptionVocabulary(p) ==
    IF p % 5 = 0 THEN ADJECTIVES
    ELSE IF p % 5 = 1 THEN NOUNS
    ELSE FILLER_TOKENS

\* The while loop of build_description: one token per iteration.
RECURSIVE DescribeLoop(_, _, _)
DescribeDrawn(tokens, target, voc, d) ==
    DescribeLoop(Append(tokens, voc[d.out + 1]), target, d.rng)

DescribeLoop(tokens, target, rng) ==
    IF Len(tokens) < target
    THEN DescribeDrawn(tokens, target, DescriptionVocabulary(Len(tokens)),
                       Randrange(rng, 0, Len(DescriptionVocabulary(Len(tokens)))))
    ELSE [out |-> tokens, rng |-> rng, target |-> target]

DescribeTo(t) == DescribeLoop(<<>>, t.out, t.rng)

\* Mutant: the target drawn from [min, max + 1].
build_description_wide(c, row_index, rng) ==
    DescribeTo(Randint(rng, c.description_tokens.min,
                       c.description_tokens.max + 1))

\* build_description: [out, rng', target].
build_description(c, row_index, rng) ==
    DescribeTo(Randint(rng, c.description_tokens.min, c.description_tokens.max))

Inserted(text, token, d) ==
    [out |-> InsertAt(text, d.out, token), rng |-> d.rng, pos |-> d.out]

\* inject_token_into_text: [out, rng', pos] (pos = -1: the text was empty).
\* A position drawn among the tokens only, never after the last one.
inject_token_into_text_inner(text, token, rng) ==
    IF text = <<>> THEN [out |-> <<token>>, rng |-> rng, pos |-> -1]
    ELSE Inserted(text, token, Randrange(rng, 0, Len(text)))

inject_token_into_text(text, token, rng) ==
    IF text = <<>> THEN [out |-> <<token>>, rng |-> rng, pos |-> -1]
    ELSE Inserted(text, token, Randrange(rng, 0, Len(text) + 1))

----------------------------------------------------------------------------
(* The body of generate_products, statement by statement, on the frame of   *)
(* the generator: its local variables, which Python keeps from one loop     *)
(* iteration to the next.  A statement maps a frame to [error, f].          *)

\* The locals before the first iteration (nothing assigned yet).  Three
\* histories of the row under construction ride along: `passes`, the target
\* field of each triggered injection pass, in order; `trace`, one entry
\* [step, rng, value] for each step that may draw from the stream, with the
\* stream it left and the token or field it produced; `snaps`, the record
\* as it stood after the description, after the common pass and after the
\* rare pass.
NewFrame ==
    [i |-> -1, rng |-> -1, pid |-> "", created |-> -1, updated |-> -1,
     brand |-> <<>>, category |-> <<>>, base_name |-> <<>>, name |-> <<>>,
     description |-> <<>>, token |-> "", field |-> "", passes |-> <<>>,
     trace |-> <<>>, snaps |-> <<>>]

Traced(f, step, rng, value) ==
    [f EXCEPT !.trace = Append(f.trace, [step |-> step, rng |-> rng,
                                         value |-> value])]

Snap(f) ==
    [id |-> f.pid, name |-> f.name, brand |-> f.brand,
     category |-> f.category, description |-> f.description,
     created_at |-> f.created, updated_at |-> f.updated]

Snapped(r) ==
    IF r.error # "none" THEN r
    ELSE [r EXCEPT !.f.snaps = Append(r.f.snaps, Snap(r.f))]

Ok(f) == [error |-> "none", f |-> f]
Raise(e, f) == [error |-> e, f |-> f]

\* Sequencing: a raised error skips the statements that follow.
Then(r, Stmt(_)) == IF r.error # "none" THEN r ELSE Stmt(r.f)

\* Mutant: one stream for the whole run, seeded at the first row.
StmtRngCarried(c, f, i) ==
    Ok([f EXCEPT !.i = i,
                 !.rng = IF f.rng < 0 THEN _row_rng(c.seed, i) ELSE f.rng,
                 !.passes = <<>>, !.trace = <<>>, !.snaps = <<>>])

\* for i in range(cfg.rows): rng = _row_rng(cfg.seed, i)
StmtRng(c, f, i) ==
    Ok([f EXCEPT !.i = i, !.rng = _row_rng(c.seed, i), !.passes = <<>>,
                 !.trace = <<>>, !.snaps = <<>>])

\* Mutant: the identifier taken from a draw of the row's stream.
StmtPidFromStream(c, f) ==
    Ok([f EXCEPT !.pid = deterministic_uuid(c.seed, Random(f.rng).out),
                 !.rng = Random(f.rng).rng])

\* pid = deterministic_uuid(cfg.seed, i)
StmtPid(c, f) == Ok([f EXCEPT !.pid = deterministic_uuid(c.seed, f.i)])

\* created = deterministic_timestamp(...); updated = created
Stamped(f, created) == Ok([f EXCEPT !.created = created, !.updated = created])

StmtTimestamps(c, f) ==
    Stamped(f, deterministic_timestamp(c.timestamps.base_utc,
                                       c.timestamps.step_seconds, f.i))

\* brand = brand_picker.pick(rng); category = category_picker.pick(rng)
PickedCategory(f, k) ==
    Ok(Traced([f EXCEPT !.category = <<k.out>>, !.rng = k.rng],
              "category", k.rng, ""))

PickedBrand(cp, f, b) ==
    PickedCategory(Traced([f EXCEPT !.brand = <<b.out>>], "brand", b.rng, ""),
                   Pick(cp, b.rng))

StmtPicks(bp, cp, f) == PickedBrand(cp, f, Pick(bp, f.rng))

\* base_name = base_name_for_index(cfg, i)
\* Mutant: a pattern that fails the brace check is emitted as it stands.
BaseNamedPartial(f, r) ==
    IF r.error # "none" THEN Ok([f EXCEPT !.base_name = r.pattern])
    ELSE Ok([f EXCEPT !.base_name = r.out])

BaseNamed(f, r) ==
    IF r.error # "none" THEN Raise(r.error, f)
    ELSE Ok([f EXCEPT !.base_name = r.out])

\* Mutant: the base name drawn from the stream of the row under
\* construction, shared with the steps around it.
StmtBaseNameShared(c, f) ==
    BaseNamed(f, NameFromDraws(c, Draws(f.rng, NameDrawSizes(c))))

StmtBaseName(c, f) == BaseNamed(f, base_name_for_index(c, f.i))

\* name = maybe_make_near_duplicate(cfg, i, base_name, rng)
Named(f, r) ==
    IF r.error # "none" THEN Raise(r.error, [f EXCEPT !.rng = r.rng])
    ELSE Ok(Traced([f EXCEPT !.name = r.out, !.rng = r.rng], "name", r.rng, ""))

StmtName(c, f) == Named(f, maybe_make_near_duplicate(c, f.i, f.base_name, f.rng))

\* description = build_description(cfg, i, rng)
Described(f, r) ==
    Snapped(Ok(Traced([f EXCEPT !.description = r.out, !.rng = r.rng],
                      "description", r.rng, "")))

StmtDescription(c, f) == Described(f, build_description(c, f.i, f.rng))

InjectedName(f, r) ==
    Traced([f EXCEPT !.name = r.out, !.rng = r.rng], "insert", r.rng, "")

InjectedDescription(f, r) ==
    Traced([f EXCEPT !.description = r.out, !.rng = r.rng], "insert", r.rng, "")

\* Mutant: an injection into brand reaches category as well.
ApplyInjectionWide(f, rng) ==
    IF f.field = "name"
    THEN InjectedName(f, inject_token_into_text(f.name, f.token, rng))
    ELSE IF f.field = "description"
    THEN InjectedDescription(f, inject_token_into_text(f.description, f.token, rng))
    ELSE IF f.field = "brand"
    THEN Traced([f EXCEPT !.brand = f.brand \o <<f.token>>,
                          !.category = f.category \o <<f.token>>, !.rng = rng],
                "insert", rng, "")
    ELSE IF f.field = "category"
    THEN Traced([f EXCEPT !.category = f.category \o <<f.token>>, !.rng = rng],
                "insert", rng, "")
    ELSE Traced([f EXCEPT !.rng = rng], "insert", rng, "")

\* The if/elif chain on `field` of an injection pass.
ApplyInjection(f, rng) ==
    IF f.field = "name"
    THEN InjectedName(f, inject_token_into_text(f.name, f.token, rng))
    ELSE IF f.field = "description"
    THEN InjectedDescription(f, inject_token_into_text(f.description, f.token, rng))
    ELSE IF f.field = "brand"
    THEN Traced([f EXCEPT !.brand = f.brand \o <<f.token>>, !.rng = rng],
                "insert", rng, "")
    ELSE IF f.field = "category"
    THEN Traced([f EXCEPT !.category = f.category \o <<f.token>>, !.rng = rng],
                "insert", rng, "")
    ELSE Traced([f EXCEPT !.rng = rng], "insert", rng, "")

\* field = _choose_injection_field(cfg, rng), then the chain.
PassField(f, fld) ==
    IF fld.error # "none" THEN Raise(fld.error, f)
    ELSE Ok(ApplyInjection(Traced([f EXCEPT !.field = fld.out,
                                            !.passes = Append(f.passes, fld.out)],
                                  "field", fld.rng, fld.out),
                           fld.rng))

PassToken(c, f, tok) ==
    PassField(Traced([f EXCEPT !.token = tok.out, !.rng = tok.rng],
                     "token", tok.rng, tok.out),
              _choose_injection_field(c, tok.rng))

\* One injection pass: roll, token, field, insertion.  tok: [out, rng'] is
\* the token drawn from the stream the roll left.
PassRolled(c, f, rate, roll, tok) ==
    IF ~Under(roll.out, rate)
    THEN Ok(Traced([f EXCEPT !.rng = roll.rng], "roll", roll.rng, ""))
    ELSE PassToken(c, Traced(f, "roll", roll.rng, ""), tok)

\* token = COMMON_TOKENS[rng.randrange(0, len(COMMON_TOKENS))]
CommonDrawn(d) == [out |-> COMMON_TOKENS[d.out + 1], rng |-> d.rng]

CommonToken(rng) == CommonDrawn(Randrange(rng, 0, Len(COMMON_TOKENS)))

\* 1) common tokens injected on some fraction of rows
StmtCommon(c, f) ==
    Snapped(PassRolled(c, f, c.token_injection.common_row_rate, Random(f.rng),
                       CommonToken(Random(f.rng).rng)))

\* 2) rare tokens injected on some fraction of rows
StmtRare(c, f) ==
    Snapped(PassRolled(c, f, c.token_injection.rare_row_rate, Random(f.rng),
                       rare_token(c, Random(f.rng).rng)))

\* ProductRow(id=pid, name=name, ...): the record yielded.
ProductRow(f) ==
    [id |-> f.pid, name |-> f.name, brand |-> f.brand,
     category |-> f.category, description |-> f.description,
     created_at |-> f.created, updated_at |-> f.updated]

\* Mutant: the rare pass before the common pass.
LoopBodyRareFirst(c, bp, cp, f, i) ==
    LET Pid(x) == StmtPid(c, x)
        Timestamps(x) == StmtTimestamps(c, x)
        Picks(x) == StmtPicks(bp, cp, x)
        BaseName(x) == StmtBaseName(c, x)
        Name(x) == StmtName(c, x)
        Description(x) == StmtDescription(c, x)
        Common(x) == StmtCommon(c, x)
        Rare(x) == StmtRare(c, x)
    IN Then(Then(Then(Then(Then(Then(Then(Then(StmtRng(c, f, i),
         Pid), Timestamps), Picks), BaseName), Name), Description),
         Rare), Common)

\* One iteration of the main loop, for index i, from the frame f as the
\* previous iteration (or nothing) left it: [error, f].
LoopBody(c, bp, cp, f, i) ==
    LET Pid(x) == StmtPid(c, x)
        Timestamps(x) == StmtTimestamps(c, x)
        Picks(x) == StmtPicks(bp, cp, x)
        BaseName(x) == StmtBaseName(c, x)
        Name(x) == StmtName(c, x)
        Description(x) == StmtDescription(c, x)
        Common(x) == StmtCommon(c, x)
        Rare(x) == StmtRare(c, x)
    IN Then(Then(Then(Then(Then(Then(Then(Then(StmtRng(c, f, i),
         Pid), Timestamps), Picks), BaseName), Name), Description),
         Common), Rare)

----------------------------------------------------------------------------
(* The generator object: a call of generate_products(cfg) returns it without *)
(* running any of the body; each next() runs the body to the next yield,    *)
(* to the end of the loop (StopIteration) or to a raised error.             *)

NoGenerator ==
    [state |-> "none", error |-> "none", exhausted |-> FALSE,
     brand_picker |-> NoPicker, category_picker |-> NoPicker,
     frame |-> NewFrame, out |-> <<>>, log |-> <<>>]

\* Mutant: one iterator shared by the invocations of the process; a later
\* call resumes where the earlier one stands.
SharedGenerator(g) ==
    IF \E h \in DOMAIN gen : h # g /\ gen[h].state # "none"
    THEN [gen[CHOOSE h \in DOMAIN gen : h # g /\ gen[h].state # "none"]
            EXCEPT !.out = <<>>, !.log = <<>>]
    ELSE [NoGenerator EXCEPT !.state = "created"]

\* The object a call of generate_products returns to invocation g.
NewGenerator(g) == [NoGenerator EXCEPT !.state = "created"]

Closed(G, e, f) == [G EXCEPT !.state = "closed", !.error = e, !.frame = f]

\* yield ProductRow(...), or the error of the body propagates.  `out` is
\* the sequence of records the consumer has received; `log` the history of
\* the injection passes of each.
Yielded(G, r) ==
    IF r.error # "none" THEN Closed(G, r.error, r.f)
    ELSE [G EXCEPT !.state = "suspended", !.frame = r.f,
                   !.out = Append(G.out, ProductRow(r.f)),
                   !.log = Append(G.log, r.f.passes)]

\* Mutant: the loop runs one index too far.
GenLoopOneMore(c, G, i) ==
    IF i > c.rows
    THEN [G EXCEPT !.state = "closed", !.exhausted = TRUE]
    ELSE Yielded(G, LoopBody(c, G.brand_picker, G.category_picker, G.frame, i))

\* The loop from index i on: yield row i, or stop (StopIteration).
GenLoop(c, G, i) ==
    IF i >= c.rows
    THEN [G EXCEPT !.state = "closed", !.exhausted = TRUE]
    ELSE Yielded(G, LoopBody(c, G.brand_picker, G.category_picker, G.frame, i))

\* The two pickers built before the loop, on the first next().
WithPickers(G, bp, cp) ==
    IF ~bp.ok THEN Closed(G, bp.error, G.frame)
    ELSE IF ~cp.ok THEN Closed([G EXCEPT !.brand_picker = bp], cp.error, G.frame)
    ELSE [G EXCEPT !.brand_picker = bp, !.category_picker = cp]

BrandPicker(c) ==
    WeightedPicker(c.distributions.brands.items, c.distributions.brands.weights)

CategoryPicker(c) ==
    WeightedPicker(c.distributions.categories.items,
                   c.distributions.categories.weights)

Started(c, G) ==
    IF G.state = "created" THEN WithPickers(G, BrandPicker(c), CategoryPicker(c))
    ELSE G

Continued(c, G) ==
    IF G.state = "closed" THEN G ELSE GenLoop(c, G, G.frame.i + 1)

\* next(gen) on a generator that is not closed.
GenNext(c, G) == Continued(c, Started(c, G))

\* A worker that assembles row i and nothing else: its own pickers, its own
\* frame.  [i, error, row].
NoRow == [i |-> -1, error |-> "none", row |-> ProductRow(NewFrame)]

Assembled(i, r) ==
    IF r.error # "none" THEN [NoRow EXCEPT !.i = i, !.error = r.error]
    ELSE [i |-> i, error |-> "none", row |-> ProductRow(r.f)]

AssembleWith(c, i, bp, cp) ==
    IF ~bp.ok THEN [NoRow EXCEPT !.i = i, !.error = bp.error]
    ELSE IF ~cp.ok THEN [NoRow EXCEPT !.i = i, !.error = cp.error]
    ELSE Assembled(i, LoopBody(c, bp, cp, NewFrame, i))

AssembleRow(c, i) == AssembleWith(c, i, BrandPicker(c), CategoryPicker(c))

----------------------------------------------------------------------------
(* Configurations *)

Seeds == {7, 42}

Dist(items, weights) == [items |-> items, weights |-> weights]

AllFields == Dist(<<"name", "description", "brand", "category">>, <<1, 1, 1, 1>>)

GoodPatterns ==
    << <<"{adj}", "{noun}">>, <<"{brandish}", "{noun}", "{qualifier}">>,
       <<"{adj}", "{noun}", "deluxe">> >>

BadPatterns == << <<"{adj}", "{noun}">>, <<"{color}", "{noun}">> >>

\* Everything of a SeedConfig but seed and rows.
Plain ==
    [timestamps |-> [base_utc |-> 1735689600, step_seconds |-> 60],
     distributions |-> [brands |-> Dist(<<"acme", "zenith">>, <<7, 3>>),
                        categories |-> Dist(<<"grocery", "beverage">>, <<1, 1>>)],
     token_injection |-> [common_row_rate |-> 0, rare_row_rate |-> 0,
                          fields |-> AllFields],
     description_tokens |-> [min |-> 2, max |-> 3],
     duplicates |-> [near_duplicate_row_rate |-> 0],
     rare_tokens |-> [prefix |-> "rare-", start |-> 1, end |-> 20000, width |-> 6],
     templates |-> [name_patterns |-> GoodPatterns]]

ProfileNames ==
    {"plain", "dense", "mixed", "labels", "badtpl", "nobrands", "nofields"}

Profile(p) ==
    CASE p = "plain" -> Plain
      [] p = "dense" ->
           [Plain EXCEPT
              !.timestamps = [base_utc |-> 0, step_seconds |-> 1],
              !.token_injection =
                  [common_row_rate |-> RateDen, rare_row_rate |-> RateDen,
                   fields |-> Dist(<<"name", "description">>, <<0, 1>>)],
              !.description_tokens = [min |-> 2, max |-> 2],
              !.duplicates = [near_duplicate_row_rate |-> RateDen],
              !.rare_tokens = [prefix |-> "r", start |-> 7, end |-> 7, width |-> 2]]
      [] p = "mixed" ->
           [Plain EXCEPT
              !.token_injection =
                  [common_row_rate |-> RateDen \div 2, rare_row_rate |-> RateDen - 1,
                   fields |-> AllFields],
              !.description_tokens = [min |-> 1, max |-> 3],
              !.duplicates = [near_duplicate_row_rate |-> RateDen \div 2]]
      [] p = "labels" ->
           [Plain EXCEPT
              !.distributions =
                  [brands |-> Dist(<<"acme", "zenith", "nadir">>, <<0, 5, 5>>),
                   categories |-> Dist(<<"grocery">>, <<1>>)],
              !.token_injection =
                  [common_row_rate |-> RateDen, rare_row_rate |-> RateDen,
                   fields |-> Dist(<<"name", "brand", "category">>, <<2, 1, 1>>)],
              !.duplicates = [near_duplicate_row_rate |-> RateDen]]
      [] p = "badtpl" ->
           [Plain EXCEPT
              !.templates = [name_patterns |-> BadPatterns],
              !.duplicates = [near_duplicate_row_rate |-> RateDen \div 2]]
      [] p = "nobrands" ->
           [Plain EXCEPT
              !.distributions =
                  [brands |-> Dist(<<>>, <<>>),
                   categories |-> Dist(<<"grocery", "beverage">>, <<1, 1>>)]]
      [] p = "nofields" ->
           [Plain EXCEPT
              !.token_injection =
                  [common_row_rate |-> RateDen \div 2, rare_row_rate |-> 0,
                   fields |-> Dist(<<>>, <<>>)]]

Config(seed, rows, p) ==
    [seed |-> seed, rows |-> rows, timestamps |-> Profile(p).timestamps,
     distributions |-> Profile(p).distributions,
     token_injection |-> Profile(p).token_injection,
     description_tokens |-> Profile(p).description_tokens,
     duplicates |-> Profile(p).duplicates,
     rare_tokens |-> Profile(p).rare_tokens,
     templates |-> Profile(p).templates]

Configs ==
    {Config(seed, rows, p) : seed \in Seeds, rows \in 1..MaxRows,
                             p \in ProfileNames}

----------------------------------------------------------------------------
(* The generator under two invocations and a lone worker *)

Invocations == {1, 2}

CfgOf(g) == IF g = 1 THEN cfg ELSE cfg2

NoCall == [op |-> "none"]

\* copy_products not called; `table` is the number of rows of products.
NoLoad ==
    [pc |-> "idle", table |-> 0, written |-> 0, actual |-> -1,
     error |-> "none", rows |-> -1]

\* _ENCODER = None
NoEncoder == [made |-> FALSE]

\* cmd_run not called.
NoRun == [pc |-> "idle"]

Init ==
    /\ cfg \in Configs
    /\ cfg2 \in {c \in Configs :
                   /\ c.rows = cfg.rows
                   /\ (c.seed = cfg.seed \/ [c EXCEPT !.seed = cfg.seed] = cfg)}
    /\ gen = [g \in Invocations |-> NoGenerator]
    /\ alone = NoRow
    /\ picker = NoPicker
    /\ call = NoCall
    /\ load = NoLoad
    /\ _ENCODER = NoEncoder
    /\ run = NoRun

\* gen = generate_products(cfg)
Invoke(g) ==
    /\ gen[g].state = "none"
    /\ gen' = [gen EXCEPT ![g] = NewGenerator(g)]
    /\ UNCHANGED <<cfg, cfg2, alone, picker, call, load, _ENCODER, run>>

\* next(gen): the consumer pulls one record.
Resume(g) ==
    /\ gen[g].state \in {"created", "suspended"}
    /\ gen' = [gen EXCEPT ![g] = GenNext(CfgOf(g), gen[g])]
    /\ UNCHANGED <<cfg, cfg2, alone, picker, call, load, _ENCODER, run>>

\* An independent worker assembles row i of cfg, in any order.
AssembleAlone(i) ==
    /\ alone' = AssembleRow(cfg, i)
    /\ UNCHANGED <<cfg, cfg2, gen, picker, call, load, _ENCODER, run>>

Next ==
    \/ \E g \in Invocations : Invoke(g)
    \/ \E g \in Invocations : Resume(g)
    \/ \E i \in 0..(cfg.rows - 1) : AssembleAlone(i)

Spec == Init /\ [][Next]_vars

----------------------------------------------------------------------------
(* Properties of generate_products *)

Rows(g) == gen[g].out

Both(P(_)) == P(1) /\ P(2)

Count(s, x) == Cardinality({k \in 1..Len(s) : s[k] = x})

C2_RowIndependent ==
    /\ (alone.i >= 0 /\ alone.i < Len(Rows(1)))
         => (alone.error = "none" /\ alone.row = Rows(1)[alone.i + 1])
    /\ (alone.i >= 0 /\ gen[1].error # "none" /\ gen[1].frame.i = alone.i)
         => alone.error = gen[1].error

\* The worker assembled the last row alone and the full run holds it too,
\* built as a near-duplicate of an earlier row or with an injection.
C2_Witness ==
    /\ alone.i >= 1
    /\ alone.i + 1 = Len(Rows(1))
    /\ alone.error = "none"
    /\ cfg.duplicates.near_duplicate_row_rate = RateDen
    /\ gen[1].log[alone.i + 1] # <<>>

\* C3 (length): the records come out for the indices 0, 1, 2, ... in order
\* (the k-th record carries the identifier and the instant of index k-1),
\* never more than cfg.rows of them, and the generator ends normally exactly
\* when cfg.rows have been yielded.
RowOfIndex(c, r, i) ==
    /\ r.id = deterministic_uuid(c.seed, i)
    /\ r.created_at = c.timestamps.base_utc + i * c.timestamps.step_seconds

LengthOf(g) ==
    /\ Len(Rows(g)) <= CfgOf(g).rows
    /\ \A k \in 1..Len(Rows(g)) : RowOfIndex(CfgOf(g), Rows(g)[k], k - 1)
    /\ gen[g].state = "suspended" => gen[g].frame.i = Len(Rows(g)) - 1
    /\ gen[g].exhausted => Len(Rows(g)) = CfgOf(g).rows
    /\ (gen[g].state = "closed" /\ gen[g].error = "none") => gen[g].exhausted

C3_Length == Both(LengthOf)

C3_Witness ==
    /\ gen[1].exhausted
    /\ cfg.rows = MaxRows
    /\ Len(Rows(1)) = MaxRows

\* C4, as the spec states it: every yielded description has between min and
\* max tokens.
C4_DescriptionBounds ==
    \A g \in Invocations : \A k \in 1..Len(Rows(g)) :
        /\ Len(Rows(g)[k].description) >= CfgOf(g).description_tokens.min
        /\ Len(Rows(g)[k].description) <= CfgOf(g).description_tokens.max

\* C4, amended: every yielded description has between min and max tokens
\* plus one token for each injection pass of the row that targeted the
\* description (at most two), so between min and max + 2 in all.
C4_DescriptionBoundsInjected ==
    \A g \in Invocations : \A k \in 1..Len(Rows(g)) :
        LET n == Len(Rows(g)[k].description)
            inj == Count(gen[g].log[k], "description")
        IN /\ inj <= 2
           /\ n - inj >= CfgOf(g).description_tokens.min
           /\ n - inj <= CfgOf(g).description_tokens.max

\* A yielded description that both passes injected into: it holds max + 2
\* tokens.
C4_Witness ==
    \E k \in 1..Len(Rows(1)) :
        /\ Count(gen[1].log[k], "description") = 2
        /\ Len(Rows(1)[k].description) = cfg.description_tokens.max + 2

\* C7 (identifier independence): two runs whose configurations share the
\* seed yield the same identifier at every index, whatever else differs;
\* and the statement that computes the identifier of the next row changes
\* the identifier only: the stream it is handed is the stream it leaves.
NextFrame(g) == StmtRng(CfgOf(g), gen[g].frame, gen[g].frame.i + 1).f

C7_IdentifierIndependent ==
    /\ cfg.seed = cfg2.seed =>
         \A k \in 1..Min2(Len(Rows(1)), Len(Rows(2))) :
             Rows(1)[k].id = Rows(2)[k].id
    /\ \A g \in Invocations :
         LET before == NextFrame(g)
             after == StmtPid(CfgOf(g), before)
         IN  /\ after.error = "none"
             /\ after.f.rng = _row_rng(CfgOf(g).seed, gen[g].frame.i + 1)
             /\ after.f = [before EXCEPT !.pid = after.f.pid]

\* Two runs of one seed whose other fields differ produced different
\* records under the same identifiers.
C7_Witness ==
    /\ cfg.seed = cfg2.seed
    /\ cfg.timestamps # cfg2.timestamps
    /\ cfg.token_injection # cfg2.token_injection
    /\ Len(Rows(1)) >= 2 /\ Len(Rows(2)) >= 2
    /\ Rows(1)[2] # Rows(2)[2]
    /\ Rows(1)[2].id = Rows(2)[2].id

TimestampsOf(c, r, i) ==
    /\ r.created_at = c.timestamps.base_utc + i * c.timestamps.step_seconds
    /\ r.updated_at = r.created_at

C11_Timestamps ==
    /\ \A g \in Invocations : \A k \in 1..Len(Rows(g)) :
           TimestampsOf(CfgOf(g), Rows(g)[k], k - 1)
    /\ (alone.i >= 0 /\ alone.error = "none")
         => TimestampsOf(cfg, alone.row, alone.i)

\* Base 2025-01-01T00:00:00Z, step 60 s: the row of index 2, a near
\* duplicate that an injection pass changed, carries 2025-01-01T00:02:00Z
\* twice.
C11_Witness ==
    /\ cfg.timestamps = [base_utc |-> 1735689600, step_seconds |-> 60]
    /\ cfg.duplicates.near_duplicate_row_rate = RateDen
    /\ Len(Rows(1)) >= 3
    /\ gen[1].log[3] # <<>>
    /\ Rows(1)[3].created_at = 1735689600 + 120
    /\ Rows(1)[3].updated_at = 1735689600 + 120

\* The steps of a row before the passes, and of one pass: not triggered
\* (the roll alone) or triggered.
BaseSteps == <<"brand", "category", "name", "description">>

PassSteps == {<<"roll">>, <<"roll", "token", "field", "insert">>}

StepsOf(t) == [k \in 1..Len(t) |-> t[k].step]

CommonTriggered(t) == Len(t) >= 6 /\ t[6].step = "token"

\* The position of the roll of the rare pass in the trace.
RareRoll(t) == IF CommonTriggered(t) THEN 9 ELSE 6

RareTriggered(t) == Len(t) > RareRoll(t)

\* The numbers of draws the k-th step of the trace t of frame f may make.
DrawCounts(f, t, k) ==
    CASE t[k].step = "name" -> IF f.i = 0 THEN {0} ELSE {1, 3, 4}
      [] t[k].step = "description" -> {1 + Len(f.snaps[1].description)}
      [] t[k].step = "insert" ->
           IF t[k - 1].value \in {"name", "description"} THEN {1} ELSE {0}
      [] OTHER -> {1}

\* The stream before the k-th step.
StreamBefore(c, f, t, k) == IF k = 1 THEN _row_rng(c.seed, f.i) ELSE t[k - 1].rng

\* A field of the record left by the common pass, with the token of the
\* rare pass put into it.
RareInto(text, field, token) ==
    IF field \in {"brand", "category"} THEN {text \o <<token>>}
    ELSE {InsertAt(text, pos, token) : pos \in 0..Len(text)}

StepOrderOf(c, G, f) ==
    /\ StepsOf(f.trace) \in {BaseSteps \o p \o q : p, q \in PassSteps}
    /\ \A k \in 1..Len(f.trace) :
         \E n \in DrawCounts(f, f.trace, k) :
             f.trace[k].rng = Advanced(StreamBefore(c, f, f.trace, k), n)
    /\ f.rng = f.trace[Len(f.trace)].rng
    /\ f.snaps[1].brand = <<Pick(G.brand_picker, _row_rng(c.seed, f.i)).out>>
    /\ f.snaps[1].category =
         <<Pick(G.category_picker, Advance(_row_rng(c.seed, f.i))).out>>
    /\ CommonTriggered(f.trace) => f.trace[6].value \in Range(COMMON_TOKENS)
    /\ RareTriggered(f.trace) =>
         /\ f.trace[RareRoll(f.trace) + 1].value =
              rare_token(c, f.trace[RareRoll(f.trace)].rng).out
         /\ f.snaps[3][f.trace[RareRoll(f.trace) + 2].value] \in
              RareInto(f.snaps[2][f.trace[RareRoll(f.trace) + 2].value],
                       f.trace[RareRoll(f.trace) + 2].value,
                       f.trace[RareRoll(f.trace) + 1].value)

\* C19 (assembler step order): every yielded row consumed its stream, from
\* the fresh stream of (seed, i) on and without a gap, in the order brand
\* pick, category pick, near-duplicate decision, description, common pass,
\* rare pass; a triggered pass draws roll, token, target field, insertion
\* position in that order; the first pass injects a common token, the
\* second a rare token, into the record as the first pass left it.
C19_StepOrder ==
    \A g \in Invocations :
        gen[g].state = "suspended" => StepOrderOf(CfgOf(g), gen[g], gen[g].frame)

\* Both passes triggered on the name of a row: the name holds two tokens
\* more than after the near-duplicate step, the common token and the rare
\* token.
C19_Witness ==
    /\ gen[1].state = "suspended"
    /\ gen[1].frame.passes = <<"name", "name">>
    /\ Len(gen[1].frame.trace) = 12
    /\ Len(gen[1].frame.name) = Len(gen[1].frame.snaps[1].name) + 2
    /\ gen[1].frame.trace[6].value \in Range(gen[1].frame.name)
    /\ gen[1].frame.token \in Range(gen[1].frame.name)
    /\ gen[1].frame.token \notin Range(COMMON_TOKENS)

\* What one pass did, from the record before it to the record after it:
\* nothing when not triggered, else one more token in the field it chose and
\* nothing else.
PassFrame(before, after, triggered, field) ==
    IF ~triggered THEN after = before
    ELSE /\ field \in {"name", "description", "brand", "category"}
         /\ Len(after[field]) = Len(before[field]) + 1
         /\ after = [before EXCEPT ![field] = after[field]]

InjectionFrameOf(f) ==
    /\ Len(f.snaps) = 3
    /\ PassFrame(f.snaps[1], f.snaps[2], CommonTriggered(f.trace),
                 IF CommonTriggered(f.trace) THEN f.trace[7].value ELSE "")
    /\ PassFrame(f.snaps[2], f.snaps[3], RareTriggered(f.trace),
                 IF RareTriggered(f.trace)
                 THEN f.trace[RareRoll(f.trace) + 2].value ELSE "")
    /\ f.snaps[3] = ProductRow(f)
    /\ Len(f.passes) = (IF CommonTriggered(f.trace) THEN 1 ELSE 0)
                         + (IF RareTriggered(f.trace) THEN 1 ELSE 0)

\* C20 (injection frame): a triggered pass adds one token to the field the
\* field draw selected and leaves the other three fields, the identifier
\* and both timestamps as they were; a pass that is not triggered leaves
\* the whole record as it was.
C20_InjectionFrame ==
    \A g \in Invocations :
        gen[g].state = "suspended" => InjectionFrameOf(gen[g].frame)

\* Both passes triggered on one row and chose different fields.
C20_Witness ==
    /\ gen[1].state = "suspended"
    /\ Len(gen[1].frame.passes) = 2
    /\ gen[1].frame.passes[1] # gen[1].frame.passes[2]
    /\ gen[1].frame.snaps[2] # gen[1].frame.snaps[1]
    /\ gen[1].frame.snaps[3] # gen[1].frame.snaps[2]

\* The generator with everything its frame holds forgotten but the loop
\* index.
Forgetful(G) == [G EXCEPT !.frame = [NewFrame EXCEPT !.i = G.frame.i]]

SameOutcome(A, B) ==
    /\ A.state = B.state
    /\ A.error = B.error
    /\ A.exhausted = B.exhausted
    /\ A.out = B.out
    /\ A.log = B.log

ScopedStreamOf(g) ==
    gen[g].state = "suspended" =>
      /\ gen[g].frame.trace[1].rng
           = Advance(_row_rng(CfgOf(g).seed, gen[g].frame.i))
      /\ gen[g].frame.base_name
           = base_name_for_index(CfgOf(g), gen[g].frame.i).out
      /\ SameOutcome(GenNext(CfgOf(g), gen[g]),
                     GenNext(CfgOf(g), Forgetful(gen[g])))

\* C22 (stream scoping): the stream a row draws from is the one created for
\* its own index at the start of its construction; the base name comes from
\* a stream of its own, created inside base_name_for_index, and not from
\* the row's; and once a row is yielded, neither the stream left in the
\* frame nor anything else the frame holds is consulted again: the next
\* pull gives the same result with the frame forgotten.
C22_StreamScoped == Both(ScopedStreamOf)

\* The second row is out, built as a near-duplicate (a third stream, that
\* of the source row, was created and dropped) with an injection pass, and
\* the stream left in the frame is not the fresh stream of the next row.
C22_Witness ==
    /\ gen[1].state = "suspended"
    /\ gen[1].frame.i = 1
    /\ cfg.rows >= 3
    /\ gen[1].frame.name # gen[1].frame.base_name
    /\ gen[1].frame.passes # <<>>
    /\ gen[1].frame.rng # _row_rng(cfg.seed, 2)

\* The indices of the run whose base name raises.
BadRows(c) ==
    {k \in 0..(c.rows - 1) : base_name_for_index(c, k).error # "none"}

FirstOf(S) == CHOOSE k \in S : \A j \in S : k <= j

FirstBadRow(c) == FirstOf(BadRows(c))

TemplateAbortOf(g) ==
    LET bad == BadRows(CfgOf(g))
        rows == Rows(g)
    IN  /\ \A k \in bad : Len(rows) <= k
        /\ \A j \in 1..Len(rows) :
             \A w \in 1..Len(rows[j].name) : ~HasBrace(rows[j].name[w])
        /\ (gen[g].state = "closed" /\ gen[g].category_picker.ok /\ bad # {})
             => /\ gen[g].error
                     = base_name_for_index(CfgOf(g), FirstOf(bad)).error
                /\ gen[g].error # "none"
                /\ ~gen[g].exhausted
                /\ gen[g].frame.i = FirstOf(bad)
                /\ Len(rows) = FirstOf(bad)

\* C24 (template error aborts the run): when the base name of row k
\* raises, the run holds no record for row k or any later row, no yielded
\* name holds a brace, and the generator ends at row k with the error that
\* base_name_for_index raised, the rows before k yielded and nothing after.
C24_TemplateAbort == Both(TemplateAbortOf)

\* A run of three rows whose second row drew the pattern with the unknown
\* placeholder: one record out, then the error.
C24_Witness ==
    /\ cfg.rows = 3
    /\ cfg.templates.name_patterns = BadPatterns
    /\ base_name_for_index(cfg, 0).error = "none"
    /\ base_name_for_index(cfg, 1).error = "ValueError"
    /\ gen[1].state = "closed"
    /\ gen[1].error = "ValueError"
    /\ Len(Rows(1)) = 1

\* A weighted distribution no picker can be built from.
Unusable(d) == d.items = <<>> \/ Len(d.items) # Len(d.weights)

UnusableConfig(c) ==
    \/ Unusable(c.distributions.brands)
    \/ Unusable(c.distributions.categories)
    \/ Unusable(c.token_injection.fields)

\* C25 (configuration error aborts generation immediately), as the spec
\* states it: with an empty or mismatched distribution of brands,
\* categories or injection fields, no record is ever yielded, and the first
\* pull ends the generator with the error.
C25_ConfigErrorFirst ==
    \A g \in Invocations :
        UnusableConfig(CfgOf(g)) =>
          /\ Rows(g) = <<>>
          /\ gen[g].state \in {"none", "created", "closed"}
          /\ gen[g].state = "closed" => gen[g].error = "ValueError"

----------------------------------------------------------------------------
(* WeightedPicker called directly: one object built from any two lists,     *)
(* then picks from it with any state of the stream.                         *)

LabelPool == <<"a", "b", "c", "d", "e", "f">>

Labels(n) == SubSeq(LabelPool, 1, n)

DefaultConfig == Config(42, 1, "plain")

InitPicker ==
    /\ cfg = DefaultConfig
    /\ cfg2 = DefaultConfig
    /\ gen = [g \in Invocations |-> NoGenerator]
    /\ alone = NoRow
    /\ picker = NoPicker
    /\ call = NoCall
    /\ load = NoLoad
    /\ _ENCODER = NoEncoder
    /\ run = NoRun

\* picker = WeightedPicker(items, weights); a raised error leaves no object.
Constructed(items, weights, p) ==
    /\ picker' = IF p.ok THEN p ELSE picker
    /\ call' = [op |-> "WeightedPicker", items |-> items, weights |-> weights,
                error |-> p.error]

Construct(items, weights) ==
    /\ call.op = "none"
    /\ Constructed(items, weights, WeightedPicker(items, weights))
    /\ UNCHANGED <<cfg, cfg2, gen, alone, load, _ENCODER, run>>

\* picker.pick(rng) with the stream in state rng.
PickOne(rng) ==
    /\ picker.ok
    /\ call' = [op |-> "pick", rng |-> rng, r |-> Pick(picker, rng)]
    /\ UNCHANGED <<cfg, cfg2, gen, alone, picker, load, _ENCODER, run>>

NextPicker ==
    \/ \E n \in 0..MaxLabels, weights \in SeqsUpTo(0..MaxWeight, MaxLabels) :
          Construct(Labels(n), weights)
    \/ \E rng \in 0..(RngMod - 1) : PickOne(rng)

SpecPicker == InitPicker /\ [][NextPicker]_vars

\* The 0-based index of the first entry of the cumulative table that is
\* >= x = (out/RngMod) * total, by a scan from the left (-1: none).
FirstAtLeast(cdf, out, total) ==
    LET S == {k \in 1..Len(cdf) : out * total <= cdf[k] * RngMod}
    IN IF S = {} THEN -1 ELSE (CHOOSE k \in S : \A j \in S : k <= j) - 1

C10_ConstructionChecked ==
    /\ call.op = "WeightedPicker" =>
         /\ call.error = "ValueError"
              <=> (call.items = <<>> \/ Len(call.items) # Len(call.weights))
         /\ call.error = "none" <=> picker.ok
         /\ call.error = "none" =>
              /\ picker._items = call.items
              /\ picker._total = SeqSum(call.weights)
    /\ picker.ok =>
         /\ picker._items # <<>>
         /\ Len(picker._cdf) = Len(picker._items)
    /\ call.op = "pick" => picker.ok

\* A construction refused for lists of different lengths, the labels not
\* empty: no object exists.
C10_Witness ==
    /\ call.op = "WeightedPicker"
    /\ call.error = "ValueError"
    /\ call.items # <<>>
    /\ ~picker.ok

\* The weight of the label of 0-based index idx, read off the cumulative
\* table.
WeightAt(p, idx) == p._cdf[idx + 1] - (IF idx = 0 THEN 0 ELSE p._cdf[idx])

\* C28 (zero-weight labels are never selected), as the spec states it: a
\* picker whose weights are non-negative with a positive total never
\* returns a label of weight 0, whatever the draw.
C28_ZeroWeightNeverPicked ==
    (call.op = "pick" /\ picker._total > 0) =>
        WeightAt(picker, call.r.idx) > 0

----------------------------------------------------------------------------
(* The name builders called directly *)

Placeholders == {"{adj}", "{noun}", "{qualifier}", "{brandish}"}

FullPattern == <<"{adj}", "{noun}", "{qualifier}", "{brandish}">>

PatternPool ==
    {FullPattern, <<"{adj}", "{noun}">>, <<"deluxe", "{noun}">>,
     <<"{color}", "{noun}">>, <<"{adj}", "{Adj}">>, <<"{noun}", "}">>}

PatternLists ==
    {<<p>> : p \in PatternPool} \cup {<<FullPattern, p>> : p \in PatternPool}

BaseNames == {<<"smoky", "chips">>, <<"zesty", "tea", "family", "size">>}

NameSeeds == Seeds \cup {1, 2, 3, 5, 11, 99}

NameConfigs ==
    {[Config(seed, MaxRows, "plain") EXCEPT
         !.templates = [name_patterns |-> ps],
         !.duplicates = [near_duplicate_row_rate |-> rate]] :
       seed \in NameSeeds, ps \in PatternLists, rate \in 0..RateDen}

InitName ==
    /\ cfg \in NameConfigs
    /\ cfg2 = cfg
    /\ gen = [g \in Invocations |-> NoGenerator]
    /\ alone = NoRow
    /\ picker = NoPicker
    /\ call = NoCall
    /\ load = NoLoad
    /\ _ENCODER = NoEncoder
    /\ run = NoRun

\* base_name_for_index(cfg, row_index)
CallBaseName(row_index) ==
    /\ call.op = "none"
    /\ call' = [op |-> "base_name_for_index", row_index |-> row_index,
                r |-> base_name_for_index(cfg, row_index)]
    /\ UNCHANGED <<cfg, cfg2, gen, alone, picker, load, _ENCODER, run>>

\* maybe_make_near_duplicate(cfg, row_index, base_name, rng)
CallNearDuplicate(row_index, base_name, rng) ==
    /\ call.op = "none"
    /\ call' = [op |-> "maybe_make_near_duplicate", row_index |-> row_index,
                base_name |-> base_name, rng |-> rng,
                r |-> maybe_make_near_duplicate(cfg, row_index, base_name, rng)]
    /\ UNCHANGED <<cfg, cfg2, gen, alone, picker, load, _ENCODER, run>>

NextName ==
    \/ \E row_index \in 0..(MaxRows - 1) : CallBaseName(row_index)
    \/ \E row_index \in 0..(MaxRows - 1), base_name \in BaseNames,
          rng \in 0..(RngMod - 1) :
          CallNearDuplicate(row_index, base_name, rng)

SpecName == InitName /\ [][NextName]_vars

\* C5 (near-duplicate base case): at row index 0 the base name comes back
\* unchanged, without an error and without a draw, whatever the rate and
\* the state of the stream.
C5_BaseCase ==
    (call.op = "maybe_make_near_duplicate" /\ call.row_index = 0) =>
      /\ call.r.error = "none"
      /\ call.r.out = call.base_name
      /\ call.r.rng = call.rng

\* A call for row index 0 under a near-duplicate rate of 1.
C5_Witness ==
    /\ call.op = "maybe_make_near_duplicate"
    /\ call.row_index = 0
    /\ cfg.duplicates.near_duplicate_row_rate = RateDen
    /\ call.r.out = call.base_name

\* The names one of the three transforms makes of a name.
Transforms(name) ==
    {name \o QUALIFIERS[k] : k \in 1..Len(QUALIFIERS)}
      \cup {<<ADJECTIVES[k]>> \o name : k \in 1..Len(ADJECTIVES)}
      \cup {name \o <<"-", "limited">>}

\* The roll of a call: the first draw from the stream handed in, under the
\* near-duplicate rate or not.
RollUnder ==
    Advance(call.rng) * RateDen < cfg.duplicates.near_duplicate_row_rate * RngMod

\* C16 (near-duplicate construction): at a row index i > 0, a roll not
\* under the rate returns the base name handed in, after that one draw (so
\* always at rate 0); a roll under the rate draws a source index j with
\* 0 <= j < i and returns the base name of row j put through one of the
\* three transforms (or the template error of that base name), and not a
\* transform of the row's own base name.
C16_NearDuplicate ==
    (call.op = "maybe_make_near_duplicate" /\ call.row_index > 0) =>
      /\ ~RollUnder =>
           /\ call.r.error = "none"
           /\ call.r.out = call.base_name
           /\ call.r.source_idx = -1
           /\ call.r.rng = Advance(call.rng)
      /\ RollUnder =>
           /\ call.r.source_idx \in 0..(call.row_index - 1)
           /\ call.r.error = base_name_for_index(cfg, call.r.source_idx).error
           /\ call.r.error = "none" =>
                /\ call.r.out \in
                     Transforms(base_name_for_index(cfg, call.r.source_idx).out)
                /\ call.r.out \notin Transforms(call.base_name)
                /\ call.r.out # call.base_name
      /\ cfg.duplicates.near_duplicate_row_rate = 0 => ~RollUnder

\* Row 2 became a near duplicate of row 1: the base name of row 1 with
\* "- limited" appended.
C16_Witness ==
    /\ call.op = "maybe_make_near_duplicate"
    /\ call.row_index = 2
    /\ call.r.source_idx = 1
    /\ call.r.error = "none"
    /\ call.r.out = base_name_for_index(cfg, 1).out \o <<"-", "limited">>

\* C17 (bounded recomputation): one call of maybe_make_near_duplicate makes
\* at most one call of a name function, base_name_for_index on an index
\* before the row, and that call makes none: maybe_make_near_duplicate is
\* never entered for the source index, and the call ends.
C17_BoundedRecomputation ==
    call.op = "maybe_make_near_duplicate" =>
      /\ Len(call.r.calls) <= 1
      /\ \A k \in 1..Len(call.r.calls) :
           /\ call.r.calls[k].fn = "base_name_for_index"
           /\ call.r.calls[k].row_index \in 0..(call.row_index - 1)
           /\ call.r.calls[k].row_index = call.r.source_idx
      /\ call.r.source_idx >= 0 => Len(call.r.calls) = 1

\* Row 2 took its name from row 1 under a near-duplicate rate of 1, so that
\* row 1 is itself a near duplicate in the full run: one call, on index 1.
C17_Witness ==
    /\ call.op = "maybe_make_near_duplicate"
    /\ call.row_index = 2
    /\ cfg.duplicates.near_duplicate_row_rate = RateDen
    /\ call.r.error = "none"
    /\ call.r.calls = <<[fn |-> "base_name_for_index", row_index |-> 1]>>

\* The k-th draw (k = 1, 2, ...) of a stream that starts in r0, as an index
\* into n items.
DrawOf(r0, k, n) == (Advanced(r0, k) * n) \div RngMod

\* What a piece of a pattern stands for when the adjective is the second
\* draw, the noun the third, the qualifier the fourth and the flavor
\* adjective the fifth.
ExpandPiece(w, r0) ==
    CASE w = "{adj}" -> <<ADJECTIVES[DrawOf(r0, 2, Len(ADJECTIVES)) + 1]>>
      [] w = "{noun}" -> <<NOUNS[DrawOf(r0, 3, Len(NOUNS)) + 1]>>
      [] w = "{qualifier}" -> QUALIFIERS[DrawOf(r0, 4, Len(QUALIFIERS)) + 1]
      [] w = "{brandish}" -> <<ADJECTIVES[DrawOf(r0, 5, Len(ADJECTIVES)) + 1]>>
      [] OTHER -> <<w>>

RECURSIVE Expanded(_, _)
Expanded(pattern, r0) ==
    IF pattern = <<>> THEN <<>>
    ELSE ExpandPiece(pattern[1], r0) \o Expanded(Tail(pattern), r0)

\* C18 (draw order of base_name_for_index): from the fresh stream of
\* (seed, row index) the first draw selects the pattern, the second the
\* adjective, the third the noun, the fourth the qualifier, the fifth the
\* flavor adjective; all five are made whatever the pattern holds and
\* whether or not the template error follows.
C18_DrawOrder ==
    call.op = "base_name_for_index" =>
      /\ call.r.rng = Advanced(_row_rng(cfg.seed, call.row_index), 5)
      /\ call.r.pattern =
           cfg.templates.name_patterns[
               DrawOf(_row_rng(cfg.seed, call.row_index), 1,
                      Len(cfg.templates.name_patterns)) + 1]
      /\ call.r.error = "none" =>
           call.r.out = Expanded(call.r.pattern, _row_rng(cfg.seed, call.row_index))

\* A pattern without {qualifier} and {brandish}: five draws all the same,
\* and adjective and noun come from different draws.
C18_Witness ==
    /\ call.op = "base_name_for_index"
    /\ call.r.pattern = <<"{adj}", "{noun}">>
    /\ call.r.error = "none"
    /\ call.r.rng = Advanced(_row_rng(cfg.seed, call.row_index), 5)
    /\ DrawOf(_row_rng(cfg.seed, call.row_index), 2, Len(ADJECTIVES))
         # DrawOf(_row_rng(cfg.seed, call.row_index), 3, Len(NOUNS))

\* C6 (template safety): base_name_for_index raises the template error
\* exactly when the pattern it selected holds a piece with a brace that is
\* not one of the four placeholders; a name it returns holds no brace.
C6_TemplateSafety ==
    call.op = "base_name_for_index" =>
      /\ call.r.pattern \in Range(cfg.templates.name_patterns)
      /\ call.r.error = "ValueError"
           <=> (\E k \in 1..Len(call.r.pattern) :
                   call.r.pattern[k] \in BraceWords \ Placeholders)
      /\ call.r.error = "none" =>
           /\ call.r.out # <<>>
           /\ \A k \in 1..Len(call.r.out) : call.r.out[k] \notin BraceWords

\* The selected pattern held {color}: the call raised.
C6_Witness ==
    /\ call.op = "base_name_for_index"
    /\ call.r.error = "ValueError"
    /\ call.r.pattern = <<"{color}", "{noun}">>

----------------------------------------------------------------------------
(* rare_token and build_description called directly *)

\* (start, end, width) of the rare tokens: 0 < start <= end, width > 0.
RareRanges ==
    {<<1, 20000, 6>>, <<7, 7, 2>>, <<1, 12, 1>>, <<95, 105, 2>>,
     <<9, 10, 3>>, <<1, 20000, 3>>}

\* (min, max) of the description tokens: 0 < min <= max.
DescriptionBounds == {<<1, 1>>, <<2, 3>>, <<5, 7>>, <<6, 6>>, <<1, 7>>}

TextConfigs ==
    {[Config(42, 1, "plain") EXCEPT
         !.rare_tokens = [prefix |-> px, start |-> rr[1], end |-> rr[2],
                          width |-> rr[3]],
         !.description_tokens = [min |-> db[1], max |-> db[2]]] :
       px \in {"rare-", "r"}, rr \in RareRanges, db \in DescriptionBounds}

InitText ==
    /\ cfg \in TextConfigs
    /\ cfg2 = cfg
    /\ gen = [g \in Invocations |-> NoGenerator]
    /\ alone = NoRow
    /\ picker = NoPicker
    /\ call = NoCall
    /\ load = NoLoad
    /\ _ENCODER = NoEncoder
    /\ run = NoRun

\* rare_token(cfg, rng)
CallRareToken(rng) ==
    /\ call.op = "none"
    /\ call' = [op |-> "rare_token", rng |-> rng, r |-> rare_token(cfg, rng)]
    /\ UNCHANGED <<cfg, cfg2, gen, alone, picker, load, _ENCODER, run>>

\* build_description(cfg, row_index, rng)
CallBuildDescription(row_index, rng) ==
    /\ call.op = "none"
    /\ call' = [op |-> "build_description", row_index |-> row_index,
                rng |-> rng, r |-> build_description(cfg, row_index, rng)]
    /\ UNCHANGED <<cfg, cfg2, gen, alone, picker, load, _ENCODER, run>>

\* Texts of up to three tokens, repeated tokens included, and the tokens
\* injected into them (one of them already a word of the texts).
InjectWords == {"steel", "basic"}

InjectTexts ==
    {<<>>} \cup {<<a>> : a \in InjectWords}
      \cup {<<a, b>> : a \in InjectWords, b \in InjectWords}
      \cup {<<a, b, c>> : a \in InjectWords, b \in InjectWords,
                            c \in InjectWords}

InjectTokens == {"basic", "rare-000001"}

\* inject_token_into_text(text, token, rng)
CallInject(text, token, rng) ==
    /\ call.op = "none"
    /\ call' = [op |-> "inject_token_into_text", text |-> text,
                token |-> token, rng |-> rng,
                r |-> inject_token_into_text(text, token, rng)]
    /\ UNCHANGED <<cfg, cfg2, gen, alone, picker, load, _ENCODER, run>>

NextText ==
    \/ \E rng \in 0..(RngMod - 1) : CallRareToken(rng)
    \/ \E row_index \in 0..(MaxRows - 1), rng \in 0..(RngMod - 1) :
          CallBuildDescription(row_index, rng)
    \/ \E text \in InjectTexts, token \in InjectTokens,
          rng \in 0..(RngMod - 1) : CallInject(text, token, rng)

SpecText == InitText /\ [][NextText]_vars

\* The number of decimal digits of n >= 0.
RECURSIVE NumDigits(_)
NumDigits(n) == IF n < 10 THEN 1 ELSE 1 + NumDigits(n \div 10)

\* The digit of weight 10^e of n.
DigitAt(n, e) == (n \div (10 ^ e)) % 10

\* n written with w digits, most significant first (w >= NumDigits(n)).
WrittenWith(n, w) == [k \in 1..w |-> DigitAt(n, w - k)]

\* C12 (rare-token format): the token is the prefix followed by the digits
\* of the integer n drawn by the one randint, start <= n <= end, written
\* with as many digits as width asks for (leading zeros) or as n needs when
\* that is more.
C12_RareTokenFormat ==
    call.op = "rare_token" =>
      /\ call.r.n \in cfg.rare_tokens.start .. cfg.rare_tokens.end
      /\ call.r.rng = Advance(call.rng)
      /\ call.r.out =
           cfg.rare_tokens.prefix
             \o Chars(WrittenWith(call.r.n,
                   IF NumDigits(call.r.n) > cfg.rare_tokens.width
                   THEN NumDigits(call.r.n) ELSE cfg.rare_tokens.width))

\* Prefix "rare-", start 1, end 20000, width 6: a token of six digits with
\* leading zeros.
C12_Witness ==
    /\ call.op = "rare_token"
    /\ cfg.rare_tokens = [prefix |-> "rare-", start |-> 1, end |-> 20000,
                          width |-> 6]
    /\ call.r.n = 1251
    /\ call.r.out = "rare-001251"

\* C15 (build_description): the result holds exactly target tokens, target
\* the one value drawn first from [min, max]; the token at position p is an
\* adjective when p mod 5 = 0, a noun when p mod 5 = 1, a filler word
\* otherwise; one draw per token, and the loop ends.
C15_DescriptionShape ==
    call.op = "build_description" =>
      /\ call.r.target \in cfg.description_tokens.min .. cfg.description_tokens.max
      /\ call.r.target = Randint(call.rng, cfg.description_tokens.min,
                                 cfg.description_tokens.max).out
      /\ Len(call.r.out) = call.r.target
      /\ \A p \in 0..(Len(call.r.out) - 1) :
           call.r.out[p + 1] \in
             (CASE p % 5 = 0 -> Range(ADJECTIVES)
                [] p % 5 = 1 -> Range(NOUNS)
                [] OTHER -> Range(FILLER_TOKENS))
      /\ call.r.rng = Advanced(call.rng, 1 + call.r.target)

\* A description of seven tokens: the positions 5 and 6 start the cycle of
\* vocabularies again.
C15_Witness ==
    /\ call.op = "build_description"
    /\ cfg.description_tokens = [min |-> 5, max |-> 7]
    /\ Len(call.r.out) = 7
    /\ call.r.out[6] \in Range(ADJECTIVES)
    /\ call.r.out[7] \in Range(NOUNS)

\* The sequence without its element at the 0-based position pos.
Without(s, pos) == SubSeq(s, 1, pos) \o SubSeq(s, pos + 2, Len(s))

\* C21 (inject_token_into_text): for a text of n >= 1 tokens the result has
\* n + 1 tokens, the injected token sits at the position pos drawn by the
\* one randrange, 0 <= pos <= n, and the result without that position is the
\* original sequence; the stream has advanced by one draw; and for that text
\* some stream gives pos = 0 and some stream gives pos = n.
C21_InjectedOnce ==
    (call.op = "inject_token_into_text" /\ Len(call.text) >= 1) =>
      /\ Len(call.r.out) = Len(call.text) + 1
      /\ call.r.pos \in 0..Len(call.text)
      /\ call.r.out[call.r.pos + 1] = call.token
      /\ Without(call.r.out, call.r.pos) = call.text
      /\ call.r.rng = Advance(call.rng)
      /\ \E rng \in 0..(RngMod - 1) :
           inject_token_into_text(call.text, call.token, rng).pos = 0
      /\ \E rng \in 0..(RngMod - 1) :
           inject_token_into_text(call.text, call.token, rng).pos
             = Len(call.text)

\* A token appended after the last of three tokens, one of which equals it.
C21_Witness ==
    /\ call.op = "inject_token_into_text"
    /\ call.text = <<"steel", "basic", "steel">>
    /\ call.token = "basic"
    /\ call.r.pos = 3
    /\ call.r.out = <<"steel", "basic", "steel", "basic">>

----------------------------------------------------------------------------
(* The CSV encoder of the loader (bench/loader.py).  A string is the        *)
(* sequence of its characters; a run of characters that are neither a       *)
(* comma, a double quote nor a newline may stand as one element ("acme").   *)
(* A datetime is [tzinfo, t]: tzinfo "UTC" or "none" (naive), t the instant *)
(* in seconds.                                                              *)

\* io.StringIO(): the text held and the position of the next write.
StringIO == [pos |-> 0, value |-> <<>>]

\* buf.seek(p)
Seek(buf, p) == [buf EXCEPT !.pos = p]

\* buf.truncate(n): the text cut to n characters, the position left alone.
Truncate(buf, n) ==
    [buf EXCEPT !.value = SubSeq(buf.value, 1, Min2(n, Len(buf.value)))]

\* The text with s written at position pos (past the end: padded with NUL).
Overwritten(v, pos, s) ==
    SubSeq(v, 1, pos) \o s \o SubSeq(v, pos + Len(s) + 1, Len(v))

\* buf.write(s)
Write(buf, s) ==
    [pos |-> buf.pos + Len(s),
     value |-> Overwritten(
         buf.value \o [k \in 1..(buf.pos - Len(buf.value)) |-> "NUL"],
         buf.pos, s)]

\* csv.writer, QUOTE_MINIMAL, lineterminator "\n": a field is quoted when it
\* holds the delimiter, the quote character or a newline; quotes inside are
\* doubled.
NeedsQuote(field) == \E k \in 1..Len(field) : field[k] \in {",", "\"", "\n"}

RECURSIVE Doubled(_)
Doubled(field) ==
    IF field = <<>> THEN <<>>
    ELSE (IF field[1] = "\"" THEN <<"\"", "\"">> ELSE <<field[1]>>)
           \o Doubled(Tail(field))

QuotedField(field) ==
    IF NeedsQuote(field) THEN <<"\"">> \o Doubled(field) \o <<"\"">> ELSE field

RECURSIVE JoinFields(_)
JoinFields(fields) ==
    IF Len(fields) = 1 THEN QuotedField(fields[1])
    ELSE QuotedField(fields[1]) \o <<",">> \o JoinFields(Tail(fields))

\* self._writer.writerow(fields)
Writerow(buf, fields) == Write(buf, JoinFields(fields) \o <<"\n">>)

\* dt.isoformat() of an aware UTC datetime: the instant, then "+00:00".
Isoformat(dt) == <<Chars(StrOf(dt.t)) \o "+00:00">>

\* _dt_to_text(dt): [error, out].
_dt_to_text(dt) ==
    IF dt.tzinfo = "none" THEN [error |-> "ValueError", out |-> <<>>]
    ELSE [error |-> "none", out |-> Isoformat(dt)]

\* _CsvEncoder()
_CsvEncoder == [made |-> TRUE, _buf |-> StringIO]

\* Mutant: the position is reset and the old text is left in the buffer.
ClearedSeekOnly(e) == [e EXCEPT !._buf = Seek(e._buf, 0)]

\* self._buf.seek(0); self._buf.truncate(0)
Cleared(e) == [e EXCEPT !._buf = Truncate(Seek(e._buf, 0), 0)]

\* The writerow and the return of getvalue().
RowWritten(e, buf) ==
    [error |-> "none", out |-> buf.value, e |-> [e EXCEPT !._buf = buf]]

RowEncoded(e, row, created, updated) ==
    IF created.error # "none" THEN [error |-> created.error, out |-> <<>>, e |-> e]
    ELSE IF updated.error # "none"
    THEN [error |-> updated.error, out |-> <<>>, e |-> e]
    ELSE RowWritten(e, Writerow(e._buf,
             <<row.id, row.name, row.brand, row.category, row.description,
               created.out, updated.out>>))

\* _CsvEncoder.encode_row(row) on the encoder e: [error, out, e'].
encode_row(e, row) ==
    RowEncoded(Cleared(e), row, _dt_to_text(row.created_at),
               _dt_to_text(row.updated_at))

\* _csv_encoder(): the one encoder of the process, made on first use.
_csv_encoder(E) == IF E.made THEN E ELSE _CsvEncoder

\* _row_to_csv_line(row) with the global in state E: [error, out, e'].
_row_to_csv_line(E, row) == encode_row(_csv_encoder(E), row)

\* Rows handed to the encoder: fields with commas, quotes, newlines and of
\* different lengths, empty fields, aware and naive timestamps.
CsvTexts ==
    {<<"a">>, <<"a", ",", "b">>, <<"\"", "a", "\"">>, <<"a", "\n", "b">>, <<>>}

CsvDatetimes == {[tzinfo |-> "UTC", t |-> 0], [tzinfo |-> "UTC", t |-> 60],
                 [tzinfo |-> "none", t |-> 0]}

CsvRows ==
    {[id |-> <<"id-1">>, name |-> n, brand |-> b, category |-> <<"grocery">>,
      description |-> d, created_at |-> c, updated_at |-> u] :
       n \in CsvTexts, b \in {<<"x", ",">>},
       d \in {<<"long", " ", "text">>, <<>>},
       c \in CsvDatetimes, u \in CsvDatetimes \ {[tzinfo |-> "UTC", t |-> 0]}}

InitCsv ==
    /\ cfg = DefaultConfig
    /\ cfg2 = DefaultConfig
    /\ gen = [g \in Invocations |-> NoGenerator]
    /\ alone = NoRow
    /\ picker = NoPicker
    /\ call = NoCall
    /\ load = NoLoad
    /\ _ENCODER = NoEncoder
    /\ run = NoRun

\* What the buffer of the global held before the call.
HeldBy(E) == IF E.made THEN E._buf.value ELSE <<>>

LineEncoded(row, before, r) ==
    /\ _ENCODER' = r.e
    /\ call' = [op |-> "encode_row", row |-> row, before |-> before,
                error |-> r.error, out |-> r.out]

\* line = _row_to_csv_line(row); a raised error leaves the global as the
\* call left it.
EncodeRow(row) ==
    /\ LineEncoded(row, HeldBy(_ENCODER), _row_to_csv_line(_ENCODER, row))
    /\ UNCHANGED <<cfg, cfg2, gen, alone, picker, load, run>>

NextCsv == \E row \in CsvRows : EncodeRow(row)

SpecCsv == InitCsv /\ [][NextCsv]_vars

\* A CSV text read back: the records, each the sequence of its fields; text
\* after the last newline, or an open quote, makes a record "unterminated".
RECURSIVE ParseCsv(_, _, _, _, _)
ParseCsv(s, quoted, field, fields, records) ==
    IF s = <<>>
    THEN IF quoted \/ field # <<>> \/ fields # <<>>
         THEN Append(records, <<<<"unterminated">>>>) ELSE records
    ELSE IF quoted
    THEN IF s[1] = "\""
         THEN IF Len(s) >= 2 /\ s[2] = "\""
              THEN ParseCsv(Tail(Tail(s)), TRUE, Append(field, "\""), fields,
                            records)
              ELSE ParseCsv(Tail(s), FALSE, field, fields, records)
         ELSE ParseCsv(Tail(s), TRUE, Append(field, s[1]), fields, records)
    ELSE IF s[1] = "\"" /\ field = <<>>
    THEN ParseCsv(Tail(s), TRUE, field, fields, records)
    ELSE IF s[1] = ","
    THEN ParseCsv(Tail(s), FALSE, <<>>, Append(fields, field), records)
    ELSE IF s[1] = "\n"
    THEN ParseCsv(Tail(s), FALSE, <<>>, <<>>,
                  Append(records, Append(fields, field)))
    ELSE ParseCsv(Tail(s), FALSE, Append(field, s[1]), fields, records)

\* C27 (CSV encoder reuse): whatever the process-wide encoder encoded or
\* failed to encode before, a successful call returns a text that reads back
\* as exactly one record of seven fields, those of the row of this call in
\* the order id, name, brand, category, description, created_at, updated_at,
\* and that is all the buffer holds; a call fails exactly when a timestamp
\* is naive, and then leaves the buffer empty.
C27_EncoderReuse ==
    call.op = "encode_row" =>
      /\ call.error = "none" <=>
           (call.row.created_at.tzinfo # "none"
              /\ call.row.updated_at.tzinfo # "none")
      /\ call.error = "none" =>
           /\ ParseCsv(call.out, FALSE, <<>>, <<>>, <<>>) =
                << <<call.row.id, call.row.name, call.row.brand,
                     call.row.category, call.row.description,
                     Isoformat(call.row.created_at),
                     Isoformat(call.row.updated_at)>> >>
           /\ call.out[Len(call.out)] = "\n"
           /\ _ENCODER._buf.value = call.out
      /\ call.error # "none" => (call.out = <<>> /\ _ENCODER._buf.value = <<>>)

\* A short row encoded right after a longer one: the buffer held more text
\* than the new line has, and the new line has a quoted field.
C27_Witness ==
    /\ call.op = "encode_row"
    /\ call.error = "none"
    /\ Len(call.before) > Len(call.out)
    /\ call.row.name = <<"\"", "a", "\"">>
    /\ call.row.description = <<>>

----------------------------------------------------------------------------
(* copy_products: the rows of generate_products(cfg) streamed into COPY,    *)
(* then the count of the table verified.  The database answers each step    *)
(* with an outcome: "ok", "copy_error" (the COPY fails: nothing is loaded)  *)
(* or "no_count_row" (the count query returns no row).                     *)

DbOutcomes == {"ok", "copy_error", "no_count_row"}

Failed(L, e) == [L EXCEPT !.pc = "raised", !.error = e]

\* Mutant: the comparison with cfg.rows left out.
VerifiedUnchecked(L, expected) == [L EXCEPT !.pc = "returned", !.rows = L.actual]

\* if actual != expected: raise RuntimeError; return LoadStats(rows=actual)
Verified(L, expected) ==
    IF L.actual # expected THEN Failed(L, "RuntimeError")
    ELSE [L EXCEPT !.pc = "returned", !.rows = L.actual]

\* actual = _count_products(conn)
Counted(c, L, outcome) ==
    IF outcome = "no_count_row" THEN Failed(L, "RuntimeError")
    ELSE Verified([L EXCEPT !.actual = L.table], c.rows)

\* The COPY context closes: the rows written are in the table.
Finished(c, L, outcome) ==
    Counted(c, [L EXCEPT !.table = L.table + L.written], outcome)

\* One turn of `for row in generate_products(cfg)`: G is the generator after
\* next().
Copied(c, L, G, outcome) ==
    IF G.error # "none" THEN Failed(L, G.error)
    ELSE IF outcome = "copy_error" THEN Failed(L, "DatabaseError")
    ELSE IF G.state = "suspended" THEN [L EXCEPT !.written = L.written + 1]
    ELSE Finished(c, L, outcome)

\* " ".join(words): the string of a text of the generator.
RECURSIVE Spaced(_)
Spaced(words) ==
    IF Len(words) <= 1 THEN words
    ELSE <<words[1], " ">> \o Spaced(Tail(words))

\* The ProductRow of the generator as the encoder reads it: strings, and
\* timestamps that are aware UTC datetimes.
CsvRowOf(row) ==
    [id |-> <<row.id>>, name |-> Spaced(row.name), brand |-> Spaced(row.brand),
     category |-> Spaced(row.category),
     description |-> Spaced(row.description),
     created_at |-> [tzinfo |-> "UTC", t |-> row.created_at],
     updated_at |-> [tzinfo |-> "UTC", t |-> row.updated_at]]

\* copy.write(_row_to_csv_line(row)) for the row G just yielded, if any:
\* the global encoder afterwards.
LineOf(E, G) ==
    IF G.state = "suspended"
    THEN _row_to_csv_line(E, CsvRowOf(G.out[Len(G.out)])).e
    ELSE E

InitLoad ==
    /\ cfg \in Configs
    /\ cfg2 = cfg
    /\ gen = [g \in Invocations |-> NoGenerator]
    /\ alone = NoRow
    /\ picker = NoPicker
    /\ call = NoCall
    /\ load \in {[NoLoad EXCEPT !.table = t] : t \in 0..MaxStale}
    /\ _ENCODER = NoEncoder
    /\ run = NoRun

\* Mutant: the rows are built ahead, the first one already when the
\* generator is obtained.
CopyBeginEager ==
    /\ load.pc = "idle"
    /\ load' = [load EXCEPT !.pc = "copying"]
    /\ gen' = [gen EXCEPT ![1] = GenNext(cfg, NewGenerator(1))]
    /\ UNCHANGED <<cfg, cfg2, alone, picker, call, _ENCODER, run>>

\* copy_products(conn, cfg) up to the call of generate_products(cfg).
CopyBegin ==
    /\ load.pc = "idle"
    /\ load' = [load EXCEPT !.pc = "copying"]
    /\ gen' = [gen EXCEPT ![1] = NewGenerator(1)]
    /\ UNCHANGED <<cfg, cfg2, alone, picker, call, _ENCODER, run>>

\* The loop asks the generator for the next row and writes it, or the loop
\* ends and the function runs to its return or raise.
CopyRow(outcome) ==
    /\ load.pc = "copying"
    /\ gen' = [gen EXCEPT ![1] = GenNext(cfg, gen[1])]
    /\ load' = Copied(cfg, load, GenNext(cfg, gen[1]), outcome)
    /\ _ENCODER' = LineOf(_ENCODER, GenNext(cfg, gen[1]))
    /\ UNCHANGED <<cfg, cfg2, alone, picker, call, run>>

NextLoad ==
    \/ CopyBegin
    \/ \E outcome \in DbOutcomes : CopyRow(outcome)

SpecLoad == InitLoad /\ [][NextLoad]_vars

\* C13 (loader count verification): copy_products returns only after it
\* wrote cfg.rows records and counted cfg.rows rows in products, with
\* LoadStats.rows = cfg.rows; whenever the count differs from cfg.rows it
\* raises RuntimeError and does not return.
C13_CountVerified ==
    /\ load.pc = "returned" =>
         /\ load.written = cfg.rows
         /\ load.actual = cfg.rows
         /\ load.rows = cfg.rows
         /\ gen[1].exhausted
    /\ (load.actual >= 0 /\ load.actual # cfg.rows) =>
         (load.pc = "raised" /\ load.error = "RuntimeError")

\* The table held a row before the load: all cfg.rows records were written,
\* the count is one too many, RuntimeError.
C13_Witness ==
    /\ load.pc = "raised"
    /\ load.error = "RuntimeError"
    /\ load.written = cfg.rows
    /\ load.actual = cfg.rows + 1

\* The generator with nothing kept of the rows it yielded: no record, no
\* pass history, no frame but the loop index.
Unretained(G) == [Forgetful(G) EXCEPT !.out = <<>>, !.log = <<>>]

Newest(G) == G.out[Len(G.out)]

LazyStep ==
    /\ Len(gen'[1].out) \in {Len(gen[1].out), Len(gen[1].out) + 1}
    /\ SubSeq(gen'[1].out, 1, Len(gen[1].out)) = gen[1].out
    /\ (load.pc = "idle" /\ load'.pc = "copying")
         => (gen'[1].out = <<>> /\ gen'[1].frame = NewFrame
               /\ gen'[1].brand_picker = NoPicker)
    /\ load'.pc = "copying" => load'.written = Len(gen'[1].out)
    /\ load'.written \in {Len(gen'[1].out) - 1, Len(gen'[1].out)}
    /\ Len(gen'[1].out) = Len(gen[1].out) + 1
         => /\ gen'[1].frame.i = Len(gen[1].out)
            /\ load.written = Len(gen[1].out)
            /\ <<Newest(gen'[1])>> = GenNext(cfg, Unretained(gen[1])).out

\* C23 (pull-driven laziness): calling generate_products runs none of its
\* body; every step of the loading loop makes the generator construct at
\* most one record, the one of the next index, and only once every earlier
\* record has been written by the consumer; the records handed over are
\* never changed afterwards; and the new record is the one the generator
\* would construct with no earlier record, pass history or frame kept.
C23_PullDriven == [][LazyStep]_vars

\* Two records written, the third not yet constructed.
C23_Witness ==
    /\ load.pc = "copying"
    /\ cfg.rows = 3
    /\ load.written = 2
    /\ Len(gen[1].out) = 2
    /\ gen[1].state = "suspended"
    /\ gen[1].frame.i = 1

----------------------------------------------------------------------------
(* load_seed_config: the parsed seed.yaml (raw) validated into a SeedConfig. *)
(* raw holds every required key with a value of the expected scalar type;   *)
(* a weight map is [items, weights, den], each weight being weights[k]/den; *)
(* the value of name_patterns is a list or not, each item a string or not,  *)
(* a string being the sequence of its pieces (<<>>: blank).                 *)

Rejected(e) == [error |-> e]

\* _validate_rate: raises unless 0.0 <= x <= 1.0.
RateError(x) == x < 0 \/ x > RateDen

\* _validate_probability_map: raises on an empty map, a negative weight, a
\* sum <= 0 or a sum other than 1.0.
ProbabilityMapError(m) ==
    \/ m.items = <<>>
    \/ \E k \in 1..Len(m.weights) : m.weights[k] < 0
    \/ SeqSum(m.weights) <= 0
    \/ SeqSum(m.weights) # m.den

allowed_fields == {"name", "description", "brand", "category"}

\* _as_str_list: [error, out], the items stripped, in order.
RECURSIVE StrItems(_)
StrItems(items) ==
    IF items = <<>> THEN [error |-> "none", out |-> <<>>]
    ELSE IF ~items[1].is_str THEN [error |-> "TypeError", out |-> <<>>]
    ELSE IF items[1].text = <<>> THEN [error |-> "ValueError", out |-> <<>>]
    ELSE LET rest == StrItems(Tail(items))
         IN [error |-> rest.error,
             out |-> IF rest.error = "none" THEN <<items[1].text>> \o rest.out
                     ELSE <<>>]

_as_str_list(v) ==
    IF ~v.is_list THEN [error |-> "TypeError", out |-> <<>>]
    ELSE StrItems(v.items)

\* return SeedConfig(...)
SeedConfig(raw, name_patterns) ==
    [seed |-> raw.seed, rows |-> raw.rows, timestamps |-> raw.timestamps,
     distributions |->
         [brands |-> Dist(raw.distributions.brands.items,
                          raw.distributions.brands.weights),
          categories |-> Dist(raw.distributions.categories.items,
                              raw.distributions.categories.weights)],
     token_injection |->
         [common_row_rate |-> raw.token_injection.common_row_rate,
          rare_row_rate |-> raw.token_injection.rare_row_rate,
          fields |-> Dist(raw.token_injection.fields.items,
                          raw.token_injection.fields.weights)],
     description_tokens |-> raw.description_tokens,
     duplicates |-> raw.duplicates,
     rare_tokens |-> raw.rare_tokens,
     templates |-> [name_patterns |-> name_patterns]]

\* name_patterns = _as_str_list(...); if not name_patterns: raise
Templated(raw, l) ==
    IF l.error # "none" THEN Rejected(l.error)
    ELSE IF l.out = <<>> THEN Rejected("ValueError")
    ELSE [error |-> "none", cfg |-> SeedConfig(raw, l.out)]

\* load_seed_config: [error] or [error |-> "none", cfg], the checks in the
\* order of the code.
load_seed_config(raw) ==
    IF raw.rows <= 0 THEN Rejected("ValueError")
    ELSE IF raw.timestamps.step_seconds <= 0 THEN Rejected("ValueError")
    ELSE IF ProbabilityMapError(raw.distributions.brands) THEN Rejected("ValueError")
    ELSE IF ProbabilityMapError(raw.distributions.categories) THEN Rejected("ValueError")
    ELSE IF RateError(raw.token_injection.common_row_rate) THEN Rejected("ValueError")
    ELSE IF RateError(raw.token_injection.rare_row_rate) THEN Rejected("ValueError")
    ELSE IF ProbabilityMapError(raw.token_injection.fields) THEN Rejected("ValueError")
    ELSE IF Range(raw.token_injection.fields.items) \ allowed_fields # {}
    THEN Rejected("ValueError")
    ELSE IF raw.description_tokens.min <= 0 \/ raw.description_tokens.max <= 0
    THEN Rejected("ValueError")
    ELSE IF raw.description_tokens.min > raw.description_tokens.max
    THEN Rejected("ValueError")
    ELSE IF RateError(raw.duplicates.near_duplicate_row_rate) THEN Rejected("ValueError")
    ELSE IF raw.rare_tokens.start <= 0 \/ raw.rare_tokens.end <= 0
    THEN Rejected("ValueError")
    ELSE IF raw.rare_tokens.start > raw.rare_tokens.end THEN Rejected("ValueError")
    ELSE IF raw.rare_tokens.width <= 0 THEN Rejected("ValueError")
    ELSE Templated(raw, _as_str_list(raw.templates.name_patterns))


\* The parsed document a SeedConfig would be written as.
RawMap(d) == [items |-> d.items, weights |-> d.weights, den |-> SeqSum(d.weights)]

RawStr(text) == [is_str |-> TRUE, text |-> text]

RawInt == [is_str |-> FALSE, text |-> <<>>]

RawList(items) == [is_list |-> TRUE, items |-> items]

RawOf(c) ==
    [seed |-> c.seed, rows |-> c.rows, timestamps |-> c.timestamps,
     distributions |-> [brands |-> RawMap(c.distributions.brands),
                        categories |-> RawMap(c.distributions.categories)],
     token_injection |->
         [common_row_rate |-> c.token_injection.common_row_rate,
          rare_row_rate |-> c.token_injection.rare_row_rate,
          fields |-> RawMap(c.token_injection.fields)],
     description_tokens |-> c.description_tokens,
     duplicates |-> c.duplicates,
     rare_tokens |-> c.rare_tokens,
     templates |->
         [name_patterns |->
              RawList([k \in 1..Len(c.templates.name_patterns) |->
                           RawStr(c.templates.name_patterns[k])])]]

\* Documents that differ from raw in one value.
RawVariants(raw) ==
    {raw,
     [raw EXCEPT !.rows = 0],
     [raw EXCEPT !.timestamps.step_seconds = 0],
     [raw EXCEPT !.distributions.brands =
         [items |-> <<"acme", "zenith">>, weights |-> <<-1, 11>>, den |-> 10]],
     [raw EXCEPT !.distributions.categories =
         [items |-> <<"grocery", "beverage">>, weights |-> <<1, 1>>, den |-> 3]],
     [raw EXCEPT !.distributions.categories =
         [items |-> <<"grocery", "beverage">>, weights |-> <<0, 0>>, den |-> 1]],
     [raw EXCEPT !.token_injection.common_row_rate = RateDen + 1],
     [raw EXCEPT !.token_injection.rare_row_rate = -1],
     [raw EXCEPT !.token_injection.fields = RawMap(Dist(<<"name", "price">>, <<1, 1>>))],
     [raw EXCEPT !.description_tokens = [min |-> 0, max |-> 2]],
     [raw EXCEPT !.description_tokens = [min |-> 3, max |-> 2]],
     [raw EXCEPT !.duplicates.near_duplicate_row_rate = RateDen + 1],
     [raw EXCEPT !.rare_tokens.start = 0],
     [raw EXCEPT !.rare_tokens.start = 20001],
     [raw EXCEPT !.rare_tokens.width = 0],
     [raw EXCEPT !.templates.name_patterns = [is_list |-> FALSE, items |-> <<>>]],
     [raw EXCEPT !.templates.name_patterns = RawList(<<>>)],
     [raw EXCEPT !.templates.name_patterns =
         RawList(<<RawStr(<<"{adj}", "{noun}">>), RawInt>>)],
     [raw EXCEPT !.templates.name_patterns =
         RawList(<<RawStr(<<"{adj}", "{noun}">>), RawStr(<<>>)>>)],
     [raw EXCEPT !.templates.name_patterns =
         RawList(<<RawStr(<<"{noun}", "}">>)>>)],
     [raw EXCEPT !.templates.name_patterns =
         RawList(<<RawStr(<<"deluxe", "{noun}">>),
                   RawStr(<<"{adj}", "{noun}", "{qualifier}", "{brandish}">>)>>)]}

RawConfigs == UNION {RawVariants(RawOf(c)) : c \in Configs}

InitConfig ==
    /\ cfg = DefaultConfig
    /\ cfg2 = DefaultConfig
    /\ gen = [g \in Invocations |-> NoGenerator]
    /\ alone = NoRow
    /\ picker = NoPicker
    /\ call = NoCall
    /\ load = NoLoad
    /\ _ENCODER = NoEncoder
    /\ run = NoRun

\* seed_cfg = load_seed_config(path)
ConfigLoaded(raw, r) ==
    /\ call' = [op |-> "load_seed_config", raw |-> raw, error |-> r.error]
    /\ cfg' = IF r.error = "none" THEN r.cfg ELSE cfg
    /\ cfg2' = cfg'

LoadSeedConfig(raw) ==
    /\ call.op = "none"
    /\ ConfigLoaded(raw, load_seed_config(raw))
    /\ UNCHANGED <<gen, alone, picker, load, _ENCODER, run>>

\* The loaded configuration is handed to generate_products.
GenerateLoaded ==
    /\ call.op = "load_seed_config"
    /\ call.error = "none"
    /\ (Invoke(1) \/ Resume(1))

NextConfig ==
    \/ \E raw \in RawConfigs : LoadSeedConfig(raw)
    \/ GenerateLoaded

SpecConfig == InitConfig /\ [][NextConfig]_vars

\* A piece of a pattern that holds a brace and is none of the four
\* placeholders.
Unrecognized(pattern) ==
    \E k \in 1..Len(pattern) : pattern[k] \in BraceWords \ Placeholders

\* C14 (validated templates), as the spec states it: a SeedConfig returned
\* by load_seed_config holds a non-empty list of name patterns, none with an
\* unrecognized placeholder.
C14_ValidatedTemplates ==
    (call.op = "load_seed_config" /\ call.error = "none") =>
      /\ cfg.templates.name_patterns # <<>>
      /\ \A k \in 1..Len(cfg.templates.name_patterns) :
           ~Unrecognized(cfg.templates.name_patterns[k])

----------------------------------------------------------------------------
(* cmd_run (bench/bench.py): for each variant name of bench.yaml, resolve   *)
(* the variant, apply it, ANALYZE, warm up, measure, and revert it in the   *)
(* finally clause.  Each call that reaches the database or the disk answers *)
(* with an outcome: it returns or it raises.  `applied` is the set of       *)
(* variants whose up.sql took effect and whose down.sql did not; `log` is   *)
(* the history of the calls made, each with the loop index, the variant     *)
(* object it was given and the value of `applied` when it was made.         *)

\* The variants with a directory under sql/variants.
Registry == {"btree", "gin"}

VariantNames == Registry \cup {"missing"}

RECURSIVE NameLists(_)
NameLists(n) ==
    IF n = 0 THEN {<<>>}
    ELSE NameLists(n - 1)
           \cup {Append(l, v) : l \in {m \in NameLists(n - 1) : Len(m) = n - 1},
                                v \in VariantNames}

\* bench_cfg: a non-empty list of variant names, runs > 0, warmup >= 0, a
\* non-empty list of queries (its length here).
BenchConfigs ==
    {[variants |-> vs, warmup |-> w, queries |-> nq, runs |-> r] :
       vs \in NameLists(MaxVariants) \ {<<>>}, w \in 0..1,
       nq \in 1..MaxQueries, r \in 1..MaxRuns}

\* get_variant(name): the Variant, or KeyError for a name without a
\* directory.
get_variant(name) ==
    IF name \in Registry THEN [error |-> "none", variant |-> name]
    ELSE [error |-> "KeyError", variant |-> "unbound"]

Logged(R, ev, variant, error) ==
    [R EXCEPT !.log = Append(R.log, [ev |-> ev, k |-> R.k, variant |-> variant,
                                     error |-> error, applied |-> R.applied])]

\* An exception raised inside the try: the except clause re-raises it, the
\* finally clause runs first.
Raised(R, error) == [R EXCEPT !.pc = "finally", !.error = error]

\* variant = get_variant(variant_name)
Resolved(R, r) ==
    IF r.error # "none" THEN Raised(R, r.error)
    ELSE [R EXCEPT !.variant = r.variant, !.pc = "apply"]

\* apply_variant(conn, variant)
Applied(R, outcome) ==
    CASE outcome = "ok" ->
           [R EXCEPT !.applied = R.applied \cup {R.variant}, !.pc = "analyze"]
      [] outcome = "raise_partial" ->
           Raised([R EXCEPT !.applied = R.applied \cup {R.variant}], "DatabaseError")
      [] OTHER -> Raised(R, "DatabaseError")

\* exec_sql(conn, "ANALYZE products"), then the warmup loops if warmup > 0.
Analyzed(R, outcome) ==
    IF outcome # "ok" THEN Raised(R, "DatabaseError")
    ELSE [R EXCEPT !.pc = IF R.bench.warmup > 0 THEN "warmup" ELSE "measure",
                   !.q = 0, !.n = 0]

\* One turn of the two nested loops over the queries and the repetitions
\* (count of them); after the last turn, pc becomes `after`.
Turned(R, count, after) ==
    IF R.n + 1 < count THEN [R EXCEPT !.n = R.n + 1]
    ELSE IF R.q + 1 < R.bench.queries THEN [R EXCEPT !.q = R.q + 1, !.n = 0]
    ELSE [R EXCEPT !.pc = after, !.q = 0, !.n = 0]

\* execute_query_with_timing(conn, scenario.sql_path, params)
WarmedUp(R, outcome) ==
    IF outcome # "ok" THEN Raised(R, "DatabaseError")
    ELSE Turned(R, R.bench.warmup, "measure")

\* measurement = measure_query(conn, scenario, params)
Measured(R, outcome) ==
    IF outcome # "ok" THEN Raised(R, "DatabaseError")
    ELSE Turned(R, R.bench.runs, "finally")

\* After the finally clause: the pending exception propagates, or the loop
\* goes on with the next name, or ends.
Left(R) ==
    IF R.error # "none" THEN [R EXCEPT !.pc = "raised"]
    ELSE IF R.k + 1 < Len(R.bench.variants)
    THEN [R EXCEPT !.pc = "get", !.k = R.k + 1]
    ELSE [R EXCEPT !.pc = "artifacts"]

\* Mutant: the revert made only when the variant ran without an error.
RevertedOnSuccess(R, outcome) ==
    IF R.error # "none" THEN Left(R)
    ELSE IF outcome = "ok"
    THEN Left(Logged([R EXCEPT !.applied = R.applied \ {R.variant}],
                     "revert_variant", R.variant, "none"))
    ELSE Left(Logged(R, "revert_variant", R.variant, "DatabaseError"))

\* finally: try: revert_variant(conn, variant) except Exception: print.
\* With `variant` never assigned, evaluating the argument raises
\* UnboundLocalError, which the except clause swallows as well.
Reverted(R, outcome) ==
    IF R.variant = "unbound"
    THEN Left(Logged(R, "name_error", "unbound", "UnboundLocalError"))
    ELSE IF outcome = "ok"
    THEN Left(Logged([R EXCEPT !.applied = R.applied \ {R.variant}],
                     "revert_variant", R.variant, "none"))
    ELSE Left(Logged(R, "revert_variant", R.variant, "DatabaseError"))

NewRun(bench) ==
    [pc |-> "get", bench |-> bench, k |-> 0, variant |-> "unbound", q |-> 0,
     n |-> 0, applied |-> {}, error |-> "none", log |-> <<>>]

InitRun ==
    /\ cfg = DefaultConfig
    /\ cfg2 = DefaultConfig
    /\ gen = [g \in Invocations |-> NoGenerator]
    /\ alone = NoRow
    /\ picker = NoPicker
    /\ call = NoCall
    /\ load = NoLoad
    /\ _ENCODER = NoEncoder
    /\ run = NoRun

RunStep(R) ==
    /\ run' = R
    /\ UNCHANGED <<cfg, cfg2, gen, alone, picker, call, load, _ENCODER>>

\* cmd_run up to the loop over bench_cfg.variants.
RunBegin(bench) ==
    /\ run.pc = "idle"
    /\ RunStep(NewRun(bench))

RunGetVariant ==
    /\ run.pc = "get"
    /\ RunStep(Resolved(
           Logged(run, "get_variant", run.bench.variants[run.k + 1],
                  get_variant(run.bench.variants[run.k + 1]).error),
           get_variant(run.bench.variants[run.k + 1])))

RunApply(outcome) ==
    /\ run.pc = "apply"
    /\ RunStep(Applied(Logged(run, "apply_variant", run.variant,
                              IF outcome = "ok" THEN "none" ELSE "DatabaseError"),
                       outcome))

RunAnalyze(outcome) ==
    /\ run.pc = "analyze"
    /\ RunStep(Analyzed(Logged(run, "analyze", run.variant,
                               IF outcome = "ok" THEN "none" ELSE "DatabaseError"),
                        outcome))

RunWarmup(outcome) ==
    /\ run.pc = "warmup"
    /\ RunStep(WarmedUp(Logged(run, "warmup", run.variant,
                               IF outcome = "ok" THEN "none" ELSE "DatabaseError"),
                        outcome))

RunMeasure(outcome) ==
    /\ run.pc = "measure"
    /\ RunStep(Measured(Logged(run, "measure", run.variant,
                               IF outcome = "ok" THEN "none" ELSE "DatabaseError"),
                        outcome))

RunRevert(outcome) ==
    /\ run.pc = "finally"
    /\ RunStep(Reverted(run, outcome))

\* The count query and the artifacts, after the loop.
RunFinish(outcome) ==
    /\ run.pc = "artifacts"
    /\ RunStep([run EXCEPT !.pc = IF outcome = "ok" THEN "returned" ELSE "raised",
                          !.error = IF outcome = "ok" THEN "none" ELSE "OSError"])

NextRun ==
    \/ \E bench \in BenchConfigs : RunBegin(bench)
    \/ RunGetVariant
    \/ \E outcome \in {"ok", "raise", "raise_partial"} : RunApply(outcome)
    \/ \E outcome \in {"ok", "raise"} : RunAnalyze(outcome)
    \/ \E outcome \in {"ok", "raise"} : RunWarmup(outcome)
    \/ \E outcome \in {"ok", "raise"} : RunMeasure(outcome)
    \/ \E outcome \in {"ok", "raise"} : RunRevert(outcome)
    \/ \E outcome \in {"ok", "raise"} : RunFinish(outcome)

SpecRun == InitRun /\ [][NextRun]_vars

\* The calls of one iteration after its apply_variant.
InIteration == {"analyze", "warmup", "measure"}

\* The revert of the variant applied by the p-th call of the log comes
\* next among the calls on variants (get, apply, revert).
RevertFollows(log, p) ==
    \E q \in (p + 1)..Len(log) :
        /\ log[q].ev = "revert_variant"
        /\ log[q].variant = log[p].variant
        /\ log[q].k = log[p].k
        /\ \A m \in (p + 1)..(q - 1) : log[m].ev \in InIteration

\* C26 (variant revert is always attempted): every apply_variant in the
\* history is followed by a revert_variant on the same variant, with
\* nothing but ANALYZE, warmup and measurement calls in between, or else
\* the run is still inside that iteration of the loop; a call that raised
\* inside the try is followed by the revert attempt and by nothing else,
\* and the run then ends with the error that call raised.
C26_RevertAttempted ==
    run.pc # "idle" =>
      \A p \in 1..Len(run.log) :
        /\ run.log[p].ev = "apply_variant" =>
             \/ RevertFollows(run.log, p)
             \/ /\ run.pc \in InIteration \cup {"finally"}
                /\ run.k = run.log[p].k
                /\ \A m \in (p + 1)..Len(run.log) : run.log[m].ev \in InIteration
        /\ (run.log[p].error # "none"
              /\ run.log[p].ev \in InIteration \cup {"apply_variant"}) =>
             /\ run.pc \in {"finally", "raised"}
             /\ run.error = run.log[p].error
             /\ run.pc = "finally" => p = Len(run.log)
             /\ run.pc = "raised" =>
                  /\ p + 1 = Len(run.log)
                  /\ run.log[p + 1].ev = "revert_variant"
                  /\ run.log[p + 1].variant = run.log[p].variant
                  /\ run.log[p + 1].k = run.log[p].k

\* The first of two variants was applied, a measurement raised, the variant
\* was reverted and the error left cmd_run: the second variant never ran.
C26_Witness ==
    /\ run.pc = "raised"
    /\ Len(run.bench.variants) = 2
    /\ run.k = 0
    /\ \E p \in 1..Len(run.log) :
         run.log[p].ev = "measure" /\ run.log[p].error # "none"
    /\ run.log[Len(run.log)].ev = "revert_variant"
    /\ run.log[Len(run.log)].variant = run.bench.variants[1]
    /\ run.applied = {}

\* C29, as the claim states it: every revert_variant is made on the variant
\* that get_variant resolved in the same iteration, and the cleanup never
\* evaluates a variant that was not resolved.
C29_RevertOnlyCurrent ==
    run.pc # "idle" =>
      \A p \in 1..Len(run.log) :
        /\ run.log[p].ev # "name_error"
        /\ run.log[p].ev = "revert_variant" =>
             \E q \in 1..(p - 1) :
                 /\ run.log[q].ev = "get_variant"
                 /\ run.log[q].k = run.log[p].k
                 /\ run.log[q].error = "none"
                 /\ run.bench.variants[run.log[q].k + 1] = run.log[p].variant

\* C30, as the claim states it: every warmup or measured query runs with the
\* variant of its iteration applied and no other.
C30_VariantIsolation ==
    run.pc # "idle" =>
      \A p \in 1..Len(run.log) :
        run.log[p].ev \in {"warmup", "measure"} =>
            run.log[p].applied = {run.log[p].variant}

====
